---- MODULE Spec2Model ----
(***************************************************************************)
(* Inscrypt: the layered cipher engine (app/v1/core/encryption.py), the    *)
(* image LSB codec (app/v1/core/stenography.py) and the embed / extract    *)
(* request handlers (app/v1/routes/stenography.py).                        *)
(*                                                                         *)
(* Library primitives are modelled symbolically.  A hash digest is the     *)
(* term (hash, input); a derived key is a prefix of it, (hash, input,      *)
(* length).  Every cipher of the engine is a keystream cipher (EAX is CTR  *)
(* plus a MAC; ChaCha20, Salsa20 and ARC4 are stream ciphers), so a byte    *)
(* string is a base string XOR-ed with a set of keystreams: applying a     *)
(* keystream twice cancels it, and keystreams commute.  Different terms    *)
(* denote different byte strings (no collisions).                          *)
(***************************************************************************)
EXTENDS Integers, Sequences, FiniteSets, TLC

VARIABLES
    enc,    \* the activation of encrypt_data
    dec,    \* the activation of decrypt_data
    lsb,    \* the image LSB codec: lsb_embed_image, then lsb_extract_image
    fs,     \* the files under /tmp
    req,    \* the request a route handler is serving
    aud,    \* the audio codecs: hide_message_in_audio, extract_message_from_audio
    vid,    \* the video codecs on a list of frames
    reqs,   \* the requests two concurrent route handlers are serving
    uuids,  \* the values uuid.uuid4() has returned to those handlers
    xr,     \* a call of the XOR adapter of EncryptionService
    svc,    \* a call of ImageSteganographyService
    kd      \* two calls of _kdf

vars == <<enc, dec, lsb, fs, req, aud, vid, reqs, uuids, xr, svc, kd>>
imageVars == <<lsb>>
routeVars == <<fs, req>>
audioVars == <<aud>>
videoVars == <<vid>>
concVars == <<reqs, uuids>>
adapterVars == <<xr, svc, kd>>

None == "None"

\* ------------------------------------------------------------------------
\* Bounds of the model
\* ------------------------------------------------------------------------
MaxChain == 2
MaxMsgLen == 1

\* ------------------------------------------------------------------------
\* Python built-ins used by the engine
\* ------------------------------------------------------------------------
LowerTable ==
    [AES |-> "aes", DES |-> "des", DES3 |-> "des3", ChaCha20 |-> "chacha20",
     Blowfish |-> "blowfish", ARC2 |-> "arc2", ARC4 |-> "arc4",
     Salsa20 |-> "salsa20", CAST |-> "cast", XOR |-> "xor",
     SHA1 |-> "sha1", SHA256 |-> "sha256", SHAKE128 |-> "shake128",
     LSB |-> "lsb", ChaCha20_Poly1305 |-> "chacha20_poly1305",
     PKCS1_OAEP |-> "pkcs1_oaep", PKCS1_v1_5 |-> "pkcs1_v1_5"]

\* str.lower() on the identifiers the model uses
lower(s) == IF s \in DOMAIN LowerTable THEN LowerTable[s] ELSE s

Digits == <<"0", "1", "2", "3", "4", "5", "6", "7", "8", "9">>

RECURSIVE str(_)
\* str(index).encode(): the decimal digits of a natural number
str(n) == IF n < 10 THEN <<Digits[n + 1]>>
          ELSE str(n \div 10) \o <<Digits[(n % 10) + 1]>>

Min(a, b) == IF a < b THEN a ELSE b

\* base64.b64encode(x).decode(): a str holding the encoding of x
b64encode(x) == [type |-> "str", b64 |-> x]
\* base64.b64decode(s)
b64decode(s) == s.b64

\* (mutant) the metadata name without the layer index
key_name_without_idx(algo, idx) == <<algo, 0>>

\* f"{algo}_{idx}": idx is the run of digits after the last underscore, so
\* the formatted name determines the pair and the pair is used as the name
key_name_of(algo, idx) == <<algo, idx>>

\* ------------------------------------------------------------------------
\* Helpers: _HASH_MAP, _get_hash, _kdf
\* ------------------------------------------------------------------------
_HASH_MAP ==
    [keccak |-> "keccak", sha1 |-> "SHA1", sha224 |-> "SHA224",
     sha256 |-> "SHA256", sha384 |-> "SHA384", sha512 |-> "SHA512",
     sha3_224 |-> "SHA3_224", sha3_256 |-> "SHA3_256",
     sha3_384 |-> "SHA3_384", sha3_512 |-> "SHA3_512",
     tuplehash128 |-> "TupleHash128", tuplehash256 |-> "TupleHash256",
     shake128 |-> "SHAKE128", shake256 |-> "SHAKE256",
     cshake128 |-> "cSHAKE128", cshake256 |-> "cSHAKE256",
     kangorootwelve |-> "KangarooTwelve", whirlpool |-> "SHA512"]

\* digest length in bytes of the fixed-output hashes of Crypto.Hash
digest_size ==
    [SHA1 |-> 20, SHA224 |-> 28, SHA256 |-> 32, SHA384 |-> 48, SHA512 |-> 64,
     SHA3_224 |-> 28, SHA3_256 |-> 32, SHA3_384 |-> 48, SHA3_512 |-> 64]

\* the set literal of _kdf: hashes read with .read(size)
XofHashes ==
    {"SHAKE128", "SHAKE256", "cSHAKE128", "cSHAKE256", "KangarooTwelve",
     "TupleHash128", "TupleHash256"}

\* h.new(data=data) raises TypeError: keccak.new needs digest_bits or
\* digest_bytes, TupleHash.new accepts no data keyword
NewRejects == {"keccak", "TupleHash128", "TupleHash256"}

_get_hash(name) ==
    IF lower(name) \in DOMAIN _HASH_MAP
    THEN [ok |-> TRUE, h |-> _HASH_MAP[lower(name)]]
    ELSE [ok |-> FALSE, err |-> "ValueError: Unsupported hash"]

\* (mutant) the layer key derived from the layer index alone
kdf_without_password(key_material, hash_name, size, index) ==
    LET g == _get_hash(hash_name)
    IN  IF ~g.ok THEN g
        ELSE IF g.h \in NewRejects
        THEN [ok |-> FALSE, err |-> "TypeError: hash constructor"]
        ELSE [ok |-> TRUE,
              key |-> [h |-> g.h, data |-> str(index),
                       len |-> IF g.h \in XofHashes THEN size
                               ELSE Min(size, digest_size[g.h])]]

_kdf(key_material, hash_name, size, index) ==
    LET g == _get_hash(hash_name)
        data == key_material \o str(index)
    IN  IF ~g.ok THEN g
        ELSE IF g.h \in NewRejects
        THEN [ok |-> FALSE, err |-> "TypeError: hash constructor"]
        ELSE IF g.h \in XofHashes
        THEN [ok |-> TRUE, key |-> [h |-> g.h, data |-> data, len |-> size]]
        ELSE [ok |-> TRUE,
              key |-> [h |-> g.h, data |-> data,
                       len |-> Min(size, digest_size[g.h])]]

\* ------------------------------------------------------------------------
\* Per-algorithm wrappers: _encrypt_layer, _decrypt_layer
\* ------------------------------------------------------------------------
EaxAlgos == {"aes", "des", "des3", "blowfish", "arc2", "cast"}
NonceStreamAlgos == {"chacha20", "salsa20"}

\* key lengths the cipher constructors of Crypto.Cipher accept
key_len_ok(a, n) ==
    CASE a = "aes" -> n \in {16, 24, 32}
      [] a = "des" -> n = 8
      [] a = "des3" -> n \in {16, 24}
      [] a = "blowfish" -> n \in 4..56
      [] a = "arc2" -> n \in 5..128
      [] a = "cast" -> n \in 5..16
      [] a = "chacha20" -> n = 32
      [] a = "salsa20" -> n \in {16, 32}
      [] a = "arc4" -> n \in 1..256
      [] OTHER -> FALSE

keystream(a, key, nonce) == [algo |-> a, key |-> key, nonce |-> nonce]

\* bytes XOR keystream (the empty byte string takes no keystream byte)
xor(bytes, ks) ==
    IF bytes.base = "" THEN bytes
    ELSE [base |-> bytes.base,
          ks |-> (bytes.ks \ {ks}) \cup ({ks} \ bytes.ks)]

\* the EAX tag of a ciphertext under (key, nonce)
\* (flip: the one-byte difference a caller may have applied to the tag)
mac(a, key, nonce, ct) ==
    [algo |-> a, key |-> key, nonce |-> nonce, ct |-> ct, flip |-> 0]

\* nonce: the random nonce the cipher object draws
_encrypt_layer(algo, key, plaintext, nonce) ==
    LET a == lower(algo)
    IN  IF a \in EaxAlgos
        THEN IF ~key_len_ok(a, key.len)
             THEN [ok |-> FALSE, err |-> "ValueError: key length"]
             ELSE LET ct == xor(plaintext, keystream(a, key, nonce))
                  IN  [ok |-> TRUE, ct |-> ct,
                       meta |-> [nonce |-> nonce, tag |-> mac(a, key, nonce, ct)]]
        ELSE IF a \in NonceStreamAlgos
        THEN IF ~key_len_ok(a, key.len)
             THEN [ok |-> FALSE, err |-> "ValueError: key length"]
             ELSE [ok |-> TRUE, ct |-> xor(plaintext, keystream(a, key, nonce)),
                   meta |-> [nonce |-> nonce]]
        ELSE IF a = "arc4"
        THEN IF ~key_len_ok(a, key.len)
             THEN [ok |-> FALSE, err |-> "ValueError: key length"]
             ELSE [ok |-> TRUE, ct |-> xor(plaintext, keystream(a, key, None)),
                   meta |-> <<>>]
        ELSE [ok |-> FALSE, err |-> "ValueError: Unsupported algorithm"]

\* (mutant) cipher.decrypt in place of cipher.decrypt_and_verify
decrypt_layer_unverified(algo, key, ciphertext, meta) ==
    LET a == lower(algo)
    IN  IF a \in EaxAlgos \cup NonceStreamAlgos
        THEN IF "nonce" \notin DOMAIN meta
             THEN [ok |-> FALSE, err |-> "KeyError: nonce"]
             ELSE IF ~key_len_ok(a, key.len)
             THEN [ok |-> FALSE, err |-> "ValueError: key length"]
             ELSE [ok |-> TRUE,
                   pt |-> xor(ciphertext, keystream(a, key, meta.nonce))]
        ELSE IF a = "arc4"
        THEN [ok |-> TRUE, pt |-> xor(ciphertext, keystream(a, key, None))]
        ELSE [ok |-> FALSE, err |-> "ValueError: Unsupported algorithm"]

_decrypt_layer(algo, key, ciphertext, meta) ==
    LET a == lower(algo)
    IN  IF a \in EaxAlgos
        THEN IF "nonce" \notin DOMAIN meta
             THEN [ok |-> FALSE, err |-> "KeyError: nonce"]
             ELSE IF ~key_len_ok(a, key.len)
             THEN [ok |-> FALSE, err |-> "ValueError: key length"]
             ELSE IF "tag" \notin DOMAIN meta
             THEN [ok |-> FALSE, err |-> "KeyError: tag"]
             ELSE IF meta.tag # mac(a, key, meta.nonce, ciphertext)
             THEN [ok |-> FALSE, err |-> "ValueError: MAC check failed"]
             ELSE [ok |-> TRUE,
                   pt |-> xor(ciphertext, keystream(a, key, meta.nonce))]
        ELSE IF a \in NonceStreamAlgos
        THEN IF "nonce" \notin DOMAIN meta
             THEN [ok |-> FALSE, err |-> "KeyError: nonce"]
             ELSE IF ~key_len_ok(a, key.len)
             THEN [ok |-> FALSE, err |-> "ValueError: key length"]
             ELSE [ok |-> TRUE,
                   pt |-> xor(ciphertext, keystream(a, key, meta.nonce))]
        ELSE IF a = "arc4"
        THEN IF ~key_len_ok(a, key.len)
             THEN [ok |-> FALSE, err |-> "ValueError: key length"]
             ELSE [ok |-> TRUE, pt |-> xor(ciphertext, keystream(a, key, None))]
        ELSE [ok |-> FALSE, err |-> "ValueError: Unsupported algorithm"]

\* key_size of the loops of encrypt_data and decrypt_data
key_size_of(algo) ==
    IF lower(algo) \in {"chacha20", "salsa20"} THEN 32
    ELSE IF lower(algo) = "des" THEN 8 ELSE 16

\* ------------------------------------------------------------------------
\* Inputs
\* ------------------------------------------------------------------------
Passwords == {<<"p">>, <<"q">>}
Messages == {"HELLO", ""}
Algos == {"AES", "DES", "ChaCha20", "ARC4", "XOR"}
HashNames == {"SHA256", "sha1", "shake128", "keccak", "md5"}
Nonces == {"n0", "n1"}
Chains == UNION {[1..n -> Algos] : n \in 0..MaxChain}

\* a byte string given by the caller
plain(m) == [base |-> m, ks |-> {}]

\* an optional argument: None, or a value
NoneArg == <<>>
Some(v) == <<v>>
IsNone(x) == x = <<>>

NoKey == [h |-> None, data |-> <<>>, len |-> 0]
NoBytes == [base |-> None, ks |-> {}]
NoResult == [encrypted_data |-> None]

\* enumerate(encryption_layers)
enumerate(layers) == [i \in 1..Len(layers) |-> <<i - 1, layers[i]>>]

\* (mutant) the decryption loop without reversed()
forward_enumerate(layers) == [i \in 1..Len(layers) |-> <<i - 1, layers[i]>>]

\* reversed(list(enumerate(layers)))
reversed_enumerate(layers) ==
    [i \in 1..Len(layers) |->
        <<Len(layers) - i, layers[Len(layers) - i + 1]>>]

\* dict[key] = value
put(d, k, v) == (k :> v) @@ d

\* ------------------------------------------------------------------------
\* encrypt_data
\* ------------------------------------------------------------------------
IdleEnc ==
    [pc |-> "idle", data |-> NoBytes, password |-> <<>>,
     encryption_layers |-> <<>>, hash_name |-> None, key_material |-> <<>>,
     it |-> 1, current |-> NoBytes, key |-> NoKey, key_size |-> 0,
     nonces |-> <<>>, tags |-> <<>>, log |-> <<>>, err |-> None,
     result |-> NoResult]

\* lines 184-189: the locals before the loop
enc_start(data, password, encryption_layers, hash_name) ==
    [IdleEnc EXCEPT !.pc = "loop", !.data = data, !.password = password,
                    !.encryption_layers = encryption_layers,
                    !.hash_name = hash_name, !.key_material = password,
                    !.current = data]

\* lines 191-205: one iteration of the loop, nonce drawn by the cipher
enc_iter(e, nonce) ==
    LET idx == enumerate(e.encryption_layers)[e.it][1]
        algo == enumerate(e.encryption_layers)[e.it][2]
        key_size == key_size_of(algo)
        k == _kdf(e.key_material, e.hash_name, key_size, idx)
    IN  IF ~k.ok
        THEN [e EXCEPT !.pc = "error", !.err = k.err, !.key_size = key_size,
                       !.key = NoKey]
        ELSE LET L == _encrypt_layer(algo, k.key, e.current, nonce)
                 key_name == key_name_of(algo, idx)
             IN  IF ~L.ok
                 THEN [e EXCEPT !.pc = "error", !.err = L.err,
                                !.key_size = key_size, !.key = k.key]
                 ELSE [e EXCEPT
                         !.key_size = key_size, !.key = k.key,
                         !.nonces = IF "nonce" \in DOMAIN L.meta
                                    THEN put(@, key_name, b64encode(L.meta.nonce))
                                    ELSE @,
                         !.tags = IF "tag" \in DOMAIN L.meta
                                  THEN put(@, key_name, b64encode(L.meta.tag))
                                  ELSE @,
                         !.current = L.ct,
                         !.it = @ + 1,
                         !.log = Append(@, [idx |-> idx, algo |-> algo,
                                            key_size |-> key_size,
                                            key |-> k.key,
                                            key_name |-> key_name,
                                            pt |-> e.current, ct |-> L.ct])]

\* (mutant) the result with the tags left out of the codebook
enc_return_without_tags(e) ==
    [e EXCEPT !.pc = "returned",
              !.result = [encrypted_data |-> b64encode(e.current),
                          codebook |-> [hash |-> e.hash_name,
                                        layers |-> e.encryption_layers,
                                        nonces |-> e.nonces,
                                        tags |-> <<>>]]]

\* lines 207-215
enc_return(e) ==
    [e EXCEPT !.pc = "returned",
              !.result = [encrypted_data |-> b64encode(e.current),
                          codebook |-> [hash |-> e.hash_name,
                                        layers |-> e.encryption_layers,
                                        nonces |-> e.nonces,
                                        tags |-> e.tags]]]

EncryptCall ==
    /\ enc.pc = "idle"
    /\ \E m \in Messages, pw \in Passwords, c \in Chains, h \in HashNames :
           enc' = enc_start(plain(m), pw, c, h)
    /\ UNCHANGED <<dec, imageVars, routeVars, audioVars, videoVars, concVars, adapterVars>>

EncryptLayer ==
    /\ enc.pc = "loop"
    /\ enc.it <= Len(enc.encryption_layers)
    /\ \E nonce \in Nonces : enc' = enc_iter(enc, nonce)
    /\ UNCHANGED <<dec, imageVars, routeVars, audioVars, videoVars, concVars, adapterVars>>

EncryptReturn ==
    /\ enc.pc = "loop"
    /\ enc.it > Len(enc.encryption_layers)
    /\ enc' = enc_return(enc)
    /\ UNCHANGED <<dec, imageVars, routeVars, audioVars, videoVars, concVars, adapterVars>>

\* ------------------------------------------------------------------------
\* decrypt_data
\* ------------------------------------------------------------------------
IdleDec ==
    [pc |-> "idle", encrypted_data |-> None, password |-> <<>>,
     encryption_layers |-> NoneArg, codebook |-> NoneArg,
     layers |-> <<>>, hash_name |-> None, nonces |-> <<>>, tags |-> <<>>,
     key_material |-> <<>>, current |-> NoBytes, it |-> 1, log |-> <<>>,
     err |-> None, ret |-> NoBytes]

\* lines 225-253: argument handling and the locals before the loop
dec_start(encrypted_data, password, hash_name, encryption_layers, codebook) ==
    LET d == [IdleDec EXCEPT !.encrypted_data = encrypted_data,
                             !.password = password, !.hash_name = hash_name,
                             !.encryption_layers = encryption_layers,
                             !.codebook = codebook]
    IN  IF IsNone(encryption_layers) /\ IsNone(codebook)
        THEN [d EXCEPT !.pc = "error",
                       !.err = "ValueError: Either encryption_layers or codebook must be supplied."]
        ELSE IF IsNone(codebook)
        THEN \* layers, hash_name, nonces_b64, tags_b64 were never bound
             [d EXCEPT !.pc = "error", !.err = "UnboundLocalError: nonces_b64"]
        ELSE LET cb == codebook[1]
             IN  [d EXCEPT !.pc = "loop", !.layers = cb.layers,
                           !.hash_name = cb.hash,
                           !.nonces = [k \in DOMAIN cb.nonces |->
                                          b64decode(cb.nonces[k])],
                           !.tags = [k \in DOMAIN cb.tags |->
                                        b64decode(cb.tags[k])],
                           !.key_material = password,
                           !.current = b64decode(encrypted_data)]

\* lines 258-273: one iteration of the loop
dec_iter(d) ==
    LET idx == reversed_enumerate(d.layers)[d.it][1]
        algo == reversed_enumerate(d.layers)[d.it][2]
        key_size == key_size_of(algo)
        k == _kdf(d.key_material, d.hash_name, key_size, idx)
        key_name == key_name_of(algo, idx)
        meta == [f \in {g \in {"nonce", "tag"} :
                          \/ g = "nonce" /\ key_name \in DOMAIN d.nonces
                          \/ g = "tag" /\ key_name \in DOMAIN d.tags} |->
                    IF f = "nonce" THEN d.nonces[key_name] ELSE d.tags[key_name]]
        entry(key, ok) == [idx |-> idx, algo |-> algo, key_size |-> key_size,
                           key |-> key, key_name |-> key_name,
                           ct |-> d.current, ok |-> ok]
    IN  IF ~k.ok
        THEN [d EXCEPT !.pc = "error", !.err = k.err]
        ELSE LET R == _decrypt_layer(algo, k.key, d.current, meta)
             IN  IF ~R.ok
                 THEN [d EXCEPT !.pc = "error", !.err = R.err,
                                !.log = Append(@, entry(k.key, FALSE))]
                 ELSE [d EXCEPT !.current = R.pt, !.it = @ + 1,
                                !.log = Append(@, entry(k.key, TRUE))]

\* line 275
dec_return(d) == [d EXCEPT !.pc = "returned", !.ret = d.current]

\* the codebook with the tag stored under name k altered
alter_tag(cb, k) ==
    [cb EXCEPT !.tags[k] = [@ EXCEPT !.b64 = [@ EXCEPT !.flip = 1]]]

\* what a caller holding the result of encrypt_data may pass as codebook
CodebookArgs(cb) ==
    {NoneArg, Some(cb)} \cup {Some(alter_tag(cb, k)) : k \in DOMAIN cb.tags}

DecryptCall ==
    /\ enc.pc = "returned"
    /\ dec.pc = "idle"
    /\ \E pw \in Passwords,
          lay \in {NoneArg, Some(enc.encryption_layers)},
          cb \in CodebookArgs(enc.result.codebook) :
           dec' = dec_start(enc.result.encrypted_data, pw, enc.hash_name, lay, cb)
    /\ UNCHANGED <<enc, imageVars, routeVars, audioVars, videoVars, concVars, adapterVars>>

\* the codebook with its layers list reversed (for two layers: swapped),
\* nonces and tags left as encrypt_data produced them
swap_layers(cb) ==
    [cb EXCEPT !.layers = [i \in 1..Len(@) |-> @[Len(@) - i + 1]]]

\* decrypt_data called with the swapped codebook
DecryptCallSwapped ==
    /\ enc.pc = "returned"
    /\ dec.pc = "idle"
    /\ \E pw \in Passwords :
           dec' = dec_start(enc.result.encrypted_data, pw, enc.hash_name,
                            NoneArg, Some(swap_layers(enc.result.codebook)))
    /\ UNCHANGED <<enc, imageVars, routeVars, audioVars, videoVars, concVars, adapterVars>>

DecryptLayer ==
    /\ dec.pc = "loop"
    /\ dec.it <= Len(dec.layers)
    /\ dec' = dec_iter(dec)
    /\ UNCHANGED <<enc, imageVars, routeVars, audioVars, videoVars, concVars, adapterVars>>

DecryptReturn ==
    /\ dec.pc = "loop"
    /\ dec.it > Len(dec.layers)
    /\ dec' = dec_return(dec)
    /\ UNCHANGED <<enc, imageVars, routeVars, audioVars, videoVars, concVars, adapterVars>>


\* ------------------------------------------------------------------------
\* Image LSB codec: lsb_embed_image, lsb_extract_image
\* ------------------------------------------------------------------------
\* STEGO_MAGIC = b"INSCRYPT_STEGO"
STEGO_MAGIC == <<73, 78, 83, 67, 82, 89, 80, 84, 95, 83, 84, 69, 71, 79>>

\* a bytes object
bytes(val) == [type |-> "bytes", val |-> val]

\* (mutant) the length written least significant byte first
to_bytes4_little(n) ==
    <<n % 256, (n \div 256) % 256, (n \div 65536) % 256,
      (n \div 16777216) % 256>>

\* n.to_bytes(4, "big")
to_bytes4(n) ==
    <<(n \div 16777216) % 256, (n \div 65536) % 256, (n \div 256) % 256,
      n % 256>>

\* "".join(f"{byte:08b}" for byte in bs): the bits, most significant first
bit_string(bs) ==
    [k \in 1..(8 * Len(bs)) |->
        (bs[((k - 1) \div 8) + 1] \div 2^(7 - ((k - 1) % 8))) % 2]

RECURSIVE int2low(_)
int2low(bits) ==
    IF bits = <<>> THEN 0
    ELSE 2 * int2low(SubSeq(bits, 1, Len(bits) - 1)) + bits[Len(bits)]

\* int(bits, 2).  Python integers are unbounded; here a value of 2^30 or
\* more is reported as 2^30, which is above every length and capacity the
\* model compares it with.
int2(bits) ==
    LET n == Len(bits)
    IN  IF n > 30 /\ \E i \in 1..(n - 30) : bits[i] = 1
        THEN 2^30
        ELSE int2low(SubSeq(bits, IF n > 30 THEN n - 29 ELSE 1, n))

\* bytes(int(bits[i : i + 8], 2) for i in range(0, len(bits), 8))
bytes_of_bits(bits) ==
    [j \in 1..((Len(bits) + 7) \div 8) |->
        int2(SubSeq(bits, 8 * (j - 1) + 1, Min(8 * j, Len(bits))))]

\* (mutant) overwriting the second-lowest bit
set_bit1(v, bit) == (v - ((v \div 2) % 2) * 2) + 2 * bit

\* (v & ~1) | bit
set_lsb(v, bit) == (v - (v % 2)) + bit

\* len(img.getbands())
bands(mode) == IF mode = "RGBA" THEN 4 ELSE 3

\* The images the model opens: a fill pattern gives the channel value at
\* each flattened index (row-major, channel-minor), and `over` holds the
\* pixels written since, by pixel index y * width + x.
FillValue(fill, k) ==
    CASE fill = "black" -> 0
      [] fill = "white" -> 255
      [] OTHER -> (7 * k + 3) % 256

\* pixels[x, y]
getpixel(img, x, y) ==
    LET p == y * img.width + x
        n == bands(img.mode)
    IN  IF p \in DOMAIN img.over THEN img.over[p]
        ELSE [c \in 1..n |-> FillValue(img.fill, p * n + c - 1)]

\* pixels[x, y] = value
putpixel(img, x, y, value) ==
    [img EXCEPT !.over = put(@, y * img.width + x, value)]

NoImage == [mode |-> None, width |-> 0, height |-> 0, fill |-> None, over |-> <<>>]

IdleLsb ==
    [pc |-> "idle", img |-> NoImage, carrier |-> NoImage, message |-> bytes(<<>>),
     binary_message |-> <<>>, x |-> 0, y |-> 0, idx |-> 0, err |-> None,
     saved |-> NoImage, out |-> bytes(<<>>)]

\* lines 43-56: the frame is built and the pixel loop is entered
\* (img.mode is RGB or RGBA for every image the model opens)
embed_start(img, message) ==
    IF message.type # "bytes"
    THEN [IdleLsb EXCEPT !.pc = "error", !.img = img, !.carrier = img,
                         !.message = message,
                         !.err = "TypeError: can't concat str to bytes"]
    ELSE LET message_to_embed == STEGO_MAGIC \o message.val
             message_len_bytes == to_bytes4(Len(message_to_embed))
         IN  [IdleLsb EXCEPT
                !.pc = IF img.height > 0 /\ img.width > 0 THEN "loop" ELSE "check",
                !.img = img, !.carrier = img, !.message = message,
                !.binary_message =
                    bit_string(message_len_bytes \o message_to_embed)]

\* lines 58-83: the body of the loops for the pixel (x, y)
embed_pixel(s) ==
    LET bm == s.binary_message
        n == Len(bm)
        px == getpixel(s.img, s.x, s.y)
        i0 == s.idx
        r == IF i0 < n THEN set_lsb(px[1], bm[i0 + 1]) ELSE px[1]
        i1 == IF i0 < n THEN i0 + 1 ELSE i0
        g == IF i1 < n THEN set_lsb(px[2], bm[i1 + 1]) ELSE px[2]
        i2 == IF i1 < n THEN i1 + 1 ELSE i1
        b == IF i2 < n THEN set_lsb(px[3], bm[i2 + 1]) ELSE px[3]
        i3 == IF i2 < n THEN i2 + 1 ELSE i2
        rgba == s.img.mode = "RGBA"
        a == IF i3 < n /\ rgba THEN set_lsb(px[4], bm[i3 + 1])
             ELSE IF rgba THEN px[4] ELSE 0
        i4 == IF i3 < n /\ rgba THEN i3 + 1 ELSE i3
        last == s.x + 1 = s.img.width /\ s.y + 1 = s.img.height
    IN  IF s.idx >= n
        THEN [s EXCEPT !.pc = "check"]
        ELSE [s EXCEPT
                !.img = putpixel(@, s.x, s.y,
                                 IF rgba THEN <<r, g, b, a>> ELSE <<r, g, b>>),
                !.idx = i4,
                !.x = IF s.x + 1 = s.img.width THEN 0 ELSE s.x + 1,
                !.y = IF s.x + 1 = s.img.width THEN s.y + 1 ELSE s.y,
                !.pc = IF last THEN "check" ELSE "loop"]

\* (mutant) the image saved without the capacity check
embed_finish_unchecked(s) == [s EXCEPT !.pc = "saved", !.saved = s.img]

\* lines 85-95: the capacity check, then the image is saved as PNG
embed_finish(s) ==
    IF s.idx < Len(s.binary_message)
    THEN [s EXCEPT !.pc = "error",
                   !.err = "ValueError: Image too small for LSB payload"]
    ELSE [s EXCEPT !.pc = "saved", !.saved = s.img]

RECURSIVE embed_run(_)
\* lsb_embed_image from the loop to its return or its exception
embed_run(s) ==
    IF s.pc = "loop" THEN embed_run(embed_pixel(s))
    ELSE IF s.pc = "check" THEN embed_finish(s)
    ELSE s

\* lsb_embed_image(image_path, message, output_path)
lsb_embed_image(img, message) == embed_run(embed_start(img, message))

\* the LSB of the channel value at flattened index k (from 0)
lsb_at(img, k) ==
    LET n == bands(img.mode)
        p == k \div n
    IN  getpixel(img, p % img.width, p \div img.width)[(k % n) + 1] % 2

\* lsb_extract_image(image_path)
lsb_extract_image(img) ==
    LET total == img.width * img.height * bands(img.mode)
        read(from, n) == [k \in 1..n |-> lsb_at(img, from + k - 1)]
    IN  IF total < 32
        THEN \* next() raises StopIteration inside the generator expression
             \* of read_bits: it surfaces as RuntimeError, which is not caught
             [ok |-> FALSE, err |-> "RuntimeError: generator raised StopIteration"]
        ELSE LET message_len == int2(read(0, 32))
                 max_len == (total - 32) \div 8
             IN  IF ~(0 < message_len /\ message_len <= max_len)
                 THEN [ok |-> TRUE, out |-> bytes(<<>>)]
                 ELSE LET extracted_bytes ==
                              bytes_of_bits(read(32, message_len * 8))
                          m == Len(STEGO_MAGIC)
                      IN  IF Len(extracted_bytes) >= m
                             /\ SubSeq(extracted_bytes, 1, m) = STEGO_MAGIC
                          THEN [ok |-> TRUE,
                                out |-> bytes(SubSeq(extracted_bytes, m + 1,
                                                     Len(extracted_bytes)))]
                          ELSE [ok |-> TRUE, out |-> bytes(<<>>)]

\* Inputs of the codec
MsgBytes == {0, 65, 255}
ImageMessages == UNION {[1..n -> MsgBytes] : n \in 0..MaxMsgLen}
Fills == {"black", "white", "ramp"}
Shapes ==
    {<<"RGBA", 6, 6>>, <<"RGBA", 19, 2>>, <<"RGBA", 7, 6>>, <<"RGBA", 5, 7>>,
     <<"RGB", 8, 6>>, <<"RGB", 17, 3>>, <<"RGB", 3, 19>>}
Carriers ==
    {[mode |-> sh[1], width |-> sh[2], height |-> sh[3], fill |-> f,
      over |-> <<>>] : sh \in Shapes, f \in Fills}

EmbedCall ==
    /\ lsb.pc = "idle"
    /\ \E img \in Carriers, m \in ImageMessages :
           lsb' = embed_start(img, bytes(m))
    /\ UNCHANGED <<enc, dec, routeVars, audioVars, videoVars, concVars, adapterVars>>

EmbedPixel ==
    /\ lsb.pc = "loop"
    /\ lsb' = embed_pixel(lsb)
    /\ UNCHANGED <<enc, dec, routeVars, audioVars, videoVars, concVars, adapterVars>>

EmbedFinish ==
    /\ lsb.pc = "check"
    /\ lsb' = embed_finish(lsb)
    /\ UNCHANGED <<enc, dec, routeVars, audioVars, videoVars, concVars, adapterVars>>

ExtractCall ==
    /\ lsb.pc = "saved"
    /\ LET r == lsb_extract_image(lsb.saved)
       IN  lsb' = IF r.ok THEN [lsb EXCEPT !.pc = "extracted", !.out = r.out]
                  ELSE [lsb EXCEPT !.pc = "extract_error", !.err = r.err]
    /\ UNCHANGED <<enc, dec, routeVars, audioVars, videoVars, concVars, adapterVars>>

\* images that never went through lsb_embed_image, some of them holding
\* fewer channel values than the 32 bits of the length prefix
SmallShapes == {<<"RGBA", 2, 2>>, <<"RGB", 3, 3>>, <<"RGB", 1, 1>>}
PlainCarriers ==
    Carriers \cup
    {[mode |-> sh[1], width |-> sh[2], height |-> sh[3], fill |-> f,
      over |-> <<>>] : sh \in SmallShapes, f \in Fills}

\* lsb_extract_image called on an image nothing was embedded in
ExtractPlain ==
    /\ lsb.pc = "idle"
    /\ \E img \in PlainCarriers :
           LET r == lsb_extract_image(img)
               s == [IdleLsb EXCEPT !.img = img, !.carrier = img]
           IN  lsb' = IF r.ok
                      THEN [s EXCEPT !.pc = "plain_extracted", !.out = r.out]
                      ELSE [s EXCEPT !.pc = "plain_error", !.err = r.err]
    /\ UNCHANGED <<enc, dec, routeVars, audioVars, videoVars, concVars, adapterVars>>

\* ------------------------------------------------------------------------
\* The embed route: embed_message
\* ------------------------------------------------------------------------
SUPPORTED_ENCRYPTION_ALGORITHMS ==
    {"AES", "DES", "DES3", "ChaCha20", "ChaCha20_Poly1305", "Blowfish",
     "ARC2", "ARC4", "Salsa20", "CAST", "PKCS1_OAEP", "PKCS1_v1_5", "XOR"}

UpperTable ==
    [aes |-> "AES", ChaCha20 |-> "CHACHA20", bogus |-> "BOGUS",
     Blowfish |-> "BLOWFISH", salsa20 |-> "SALSA20"]

\* str.upper() on the identifiers the model uses
upper(s) == IF s \in DOMAIN UpperTable THEN UpperTable[s] ELSE s

\* str.strip() on the identifiers the model uses
strip(s) == IF s = " AES" THEN "AES" ELSE s

RECURSIVE enc_run(_, _)
\* the loop of encrypt_data run to its end; rnd[i] is the nonce drawn at
\* the i-th iteration
enc_run(e, rnd) ==
    IF e.pc = "loop" /\ e.it <= Len(e.encryption_layers)
    THEN enc_run(enc_iter(e, rnd[e.it]), rnd)
    ELSE IF e.pc = "loop" THEN enc_return(e)
    ELSE e

\* encrypt_data(data, password, encryption_layers, hash_name)
encrypt_data(data, password, encryption_layers, hash_name, rnd) ==
    enc_run(enc_start(data, password, encryption_layers, hash_name), rnd)

\* hide_message_in_image(image_path, message, technique, output_path)
hide_message_in_image(img, message, technique) ==
    IF lower(technique) = "lsb"
    THEN lsb_embed_image(img, message)
    ELSE [IdleLsb EXCEPT !.pc = "error",
                         !.err = "ValueError: Unsupported image technique"]

\* the 100 x 100 RGBA carrier of the scenario
Image100 ==
    [mode |-> "RGBA", width |-> 100, height |-> 100, fill |-> "black",
     over |-> <<>>]

\* Inputs of the route
Uuids == {"u1", "u2"}
Uploads ==
    {[filename |-> "cover.png", content_type |-> ct, content |-> Image100] :
        ct \in {"image/png", "text/plain"}}
AlgoFields ==
    {<<"AES">>, <<" AES">>, <<"aes">>, <<"AES", "XOR">>, <<"AES", "bogus">>,
     <<"ChaCha20">>, <<"ARC4">>, <<"">>, <<"Blowfish">>, <<"salsa20">>}
HashFields == {"sha256", "md5"}
Techniques == {"LSB", "DCT"}

\* os.path.join(temp_dir, f"temp_{uuid.uuid4().hex}_{file.filename}")
temp_path(u, filename) == <<"/tmp", "temp", u, filename>>
\* f"/tmp/output_{uuid.uuid4().hex}.{ext}" with the extension made .png
output_png(u) == <<"/tmp", "output", u, "png">>

\* a uuid4 never repeats
Fresh(u) == \A path \in DOMAIN fs : path[3] # u

\* lines 130-136: the upload is written to a temporary file
EmbedReceive ==
    /\ req.pc = "idle"
    /\ \E file \in Uploads, algos \in AlgoFields, h \in HashFields,
          t \in Techniques, u \in Uuids :
          /\ Fresh(u)
          /\ req' = [pc |-> "preflight", file |-> file, message |-> "HELLO",
                     encryption_algos |-> algos, password |-> <<"p", "w">>,
                     hash_function |-> h, stenographic_technique |-> t,
                     temp_file_path |-> temp_path(u, file.filename)]
          /\ fs' = put(fs, temp_path(u, file.filename), file.content)
    /\ UNCHANGED <<enc, dec, imageVars, audioVars, videoVars, concVars, adapterVars>>

\* the handler leaves its try block with exception e
raise(r, e) == [pc |-> "except", exc |-> e, request |-> r]

\* lines 138-154: the pre-flight check of the algorithm names
EmbedPreflight ==
    /\ req.pc = "preflight"
    /\ LET encryption_layers ==
               [i \in 1..Len(req.encryption_algos) |->
                   strip(req.encryption_algos[i])]
           unsupported_algos ==
               {i \in 1..Len(encryption_layers) :
                   upper(encryption_layers[i])
                       \notin SUPPORTED_ENCRYPTION_ALGORITHMS}
       IN  req' = IF unsupported_algos # {}
                  THEN raise(req, "HTTPException 400: Unsupported encryption algorithm(s)")
                  ELSE [pc |-> "encrypt", encryption_layers |-> encryption_layers,
                        request |-> req]
    /\ UNCHANGED <<enc, dec, imageVars, fs, audioVars, videoVars, concVars, adapterVars>>

\* lines 156-169: encrypt_data, then the output name and the payload
EmbedEncrypt ==
    /\ req.pc = "encrypt"
    /\ \E rnd \in [1..Len(req.encryption_layers) -> Nonces], u \in Uuids :
          /\ Fresh(u)
          /\ LET r == req.request
                 e == encrypt_data(plain(r.message), r.password,
                                   req.encryption_layers, r.hash_function, rnd)
             IN  req' = IF e.pc = "error"
                        THEN raise(r, e.err)
                        ELSE [pc |-> "hide", request |-> r,
                              encrypted_result |-> e.result,
                              output_file_name |-> output_png(u),
                              b64_payload |-> e.result.encrypted_data]
    /\ UNCHANGED <<enc, dec, imageVars, fs, audioVars, videoVars, concVars, adapterVars>>

\* lines 173-202: the carrier is dispatched on its content type; once the
\* payload is hidden the temporary file is removed and the result returned
\* (the uploads of the model are images and files that are no media)
EmbedHide ==
    /\ req.pc = "hide"
    /\ LET r == req.request
           h == hide_message_in_image(fs[r.temp_file_path], req.b64_payload,
                                      r.stenographic_technique)
       IN  IF r.file.content_type = "image/png"
           THEN IF h.pc = "saved"
                THEN /\ fs' = [path \in (DOMAIN fs \cup {req.output_file_name})
                                        \ {r.temp_file_path} |->
                                  IF path = req.output_file_name THEN h.saved
                                  ELSE fs[path]]
                     /\ req' = [pc |-> "done", request |-> r,
                                response |->
                                    [status |-> 200,
                                     output_path |-> req.output_file_name,
                                     codebook |-> req.encrypted_result.codebook]]
                ELSE /\ fs' = fs
                     /\ req' = raise(r, h.err)
           ELSE /\ fs' = fs
                /\ req' = raise(r, "HTTPException 400: Unsupported file type")
    /\ UNCHANGED <<enc, dec, imageVars, audioVars, videoVars, concVars, adapterVars>>

\* lines 203-205: every exception becomes HTTP 500 with its text
EmbedExcept ==
    /\ req.pc = "except"
    /\ req' = [pc |-> "done", request |-> req.request,
               response |-> [status |-> 500, detail |-> req.exc]]
    /\ UNCHANGED <<enc, dec, imageVars, fs, audioVars, videoVars, concVars, adapterVars>>

\* ------------------------------------------------------------------------
\* Audio LSB codec: _load_audio_any, _lsb_embed, hide_message_in_audio,
\* _save_audio_any, _lsb_extract
\* ------------------------------------------------------------------------
\* A float32 sample is held as the integer q with value q / 32768 (every
\* sample the codec sees is such a value); an int16 sample is an integer.
Abs(n) == IF n < 0 THEN -n ELSE n

\* n / d rounded to the nearest integer, ties to the even one (d > 0)
round_half_even(n, d) ==
    LET q == n \div d
        r == n - d * q
    IN  IF 2 * r < d THEN q
        ELSE IF 2 * r > d THEN q + 1
        ELSE IF q % 2 = 0 THEN q ELSE q + 1

\* the float32 nearest to num / 32768: 24 significant bits are kept
float32(num) ==
    IF Abs(num) < 2^24 THEN num
    ELSE LET p == CHOOSE k \in 24..30 :
                      2^k <= Abs(num) /\ (k = 30 \/ Abs(num) < 2^(k + 1))
             unit == 2^(p - 23)
         IN  round_half_even(num, unit) * unit

\* .astype(np.int16) of the float num / 32768: truncation toward zero
astype_int16(num) ==
    IF num >= 0 THEN num \div 32768 ELSE -((-num) \div 32768)

\* np.clip(samples, -1.0, 1.0)
clip(q) == IF q < -32768 THEN -32768 ELSE IF q > 32768 THEN 32768 ELSE q

\* sf.read(path, dtype="float32") of a 16-bit PCM file: value / 32768
sf_read(pcm) == [dtype |-> "float32", q |-> pcm]

\* sf.write(path, samples, sr, subtype="PCM_16") of float32 samples.
\* libsndfile converts a normalised float to a 16-bit sample as
\* lrintf(value * 0x7FFF), in float32 arithmetic, rounding ties to even.
sf_write(samples) ==
    [i \in 1..Len(samples.q) |->
        round_half_even(float32(samples.q[i] * 32767), 32768)]

\* lines 176-188 of _lsb_embed
_lsb_embed(samples, message) ==
    IF samples.dtype # "float32"
    THEN [ok |-> FALSE,
          err |-> "TypeError: Input samples for LSB embedding must be float."]
    ELSE LET int16_samples ==
                 [i \in 1..Len(samples.q) |->
                     astype_int16(float32(clip(samples.q[i]) * 32767))]
             message_to_embed == STEGO_MAGIC \o message.val
             message_len_bytes == to_bytes4(Len(message_to_embed))
             bit_stream == bit_string(message_len_bytes \o message_to_embed)
         IN  IF Len(bit_stream) > Len(int16_samples)
             THEN [ok |-> FALSE,
                   err |-> "ValueError: Audio too short for LSB payload"]
             ELSE [ok |-> TRUE,
                   bit_stream |-> bit_string(message_len_bytes \o message_to_embed),
                   int16_samples |->
                       [i \in 1..Len(int16_samples) |->
                           IF i <= Len(bit_stream)
                           THEN set_lsb(int16_samples[i], bit_stream[i])
                           ELSE int16_samples[i]]]

\* line 409: stego_int16.astype(np.float32) / 32768.0
to_float32(int16_samples) == [dtype |-> "float32", q |-> int16_samples]

\* _lsb_extract(samples)
_lsb_extract(samples) ==
    IF samples.dtype # "float32"
    THEN [ok |-> FALSE,
          err |-> "TypeError: Input samples for LSB extraction must be float."]
    ELSE LET int16_samples ==
                 [i \in 1..Len(samples.q) |->
                     astype_int16(float32(samples.q[i] * 32768))]
             n == Len(int16_samples)
             lsbs(from, k) == [j \in 1..k |-> int16_samples[from + j] % 2]
             empty == [ok |-> TRUE, out |-> bytes(<<>>)]
         IN  IF n < 32 THEN empty
             ELSE LET message_len == int2(lsbs(0, 32))
                      max_len == (n - 32) \div 8
                  IN  IF ~(0 < message_len /\ message_len <= max_len)
                      THEN empty
                      ELSE IF n < 32 + message_len * 8 THEN empty
                      ELSE LET extracted_bytes ==
                                   bytes_of_bits(lsbs(32, message_len * 8))
                               m == Len(STEGO_MAGIC)
                           IN  IF Len(extracted_bytes) >= m
                                  /\ SubSeq(extracted_bytes, 1, m) = STEGO_MAGIC
                               THEN [ok |-> TRUE,
                                     out |-> bytes(SubSeq(extracted_bytes, m + 1,
                                                          Len(extracted_bytes)))]
                               ELSE empty

IdleAud ==
    [pc |-> "idle", carrier |-> <<>>, message |-> bytes(<<>>),
     bit_stream |-> <<>>, stego_int16 |-> <<>>, file |-> <<>>,
     err |-> None, out |-> bytes(<<>>)]

\* Inputs of the audio codec: mono 16-bit PCM files
SampleValue(fill, i) ==
    CASE fill = "silence" -> 0
      [] fill = "quiet" -> ((37 * i) % 2001) - 1000
      [] fill = "half" -> IF i % 2 = 0 THEN 16380 + (i % 9) ELSE -16380 - (i % 7)
      [] fill = "full_positive" -> 32767
      [] OTHER -> -32768
AudioFills == {"silence", "quiet", "half", "full_positive", "full_negative"}
AudioLengths == {16, 143, 144, 152, 160}
PcmFiles ==
    {[i \in 1..n |-> SampleValue(f, i)] : n \in AudioLengths, f \in AudioFills}

\* hide_message_in_audio, lines 405-407: the file is loaded and _lsb_embed runs
AudioEmbed ==
    /\ aud.pc = "idle"
    /\ \E pcm \in PcmFiles, m \in ImageMessages :
           LET r == _lsb_embed(sf_read(pcm), bytes(m))
               s == [IdleAud EXCEPT !.carrier = pcm, !.message = bytes(m)]
           IN  aud' = IF r.ok
                      THEN [s EXCEPT !.pc = "embedded",
                                     !.bit_stream = r.bit_stream,
                                     !.stego_int16 = r.int16_samples]
                      ELSE [s EXCEPT !.pc = "error", !.err = r.err]
    /\ UNCHANGED <<enc, dec, imageVars, routeVars, videoVars, concVars, adapterVars>>

\* hide_message_in_audio, lines 409-433: back to float, saved as 16-bit PCM
AudioSave ==
    /\ aud.pc = "embedded"
    /\ aud' = [aud EXCEPT !.pc = "saved",
                          !.file = sf_write(to_float32(aud.stego_int16))]
    /\ UNCHANGED <<enc, dec, imageVars, routeVars, videoVars, concVars, adapterVars>>

\* extract_message_from_audio on the file hide_message_in_audio saved
AudioExtract ==
    /\ aud.pc = "saved"
    /\ LET r == _lsb_extract(sf_read(aud.file))
       IN  aud' = IF r.ok THEN [aud EXCEPT !.pc = "extracted", !.out = r.out]
                  ELSE [aud EXCEPT !.pc = "extract_error", !.err = r.err]
    /\ UNCHANGED <<enc, dec, imageVars, routeVars, videoVars, concVars, adapterVars>>

\* extract_message_from_audio on a file nothing was embedded in
AudioExtractPlain ==
    /\ aud.pc = "idle"
    /\ \E pcm \in PcmFiles :
           LET r == _lsb_extract(sf_read(pcm))
               s == [IdleAud EXCEPT !.carrier = pcm, !.file = pcm]
           IN  aud' = IF r.ok
                      THEN [s EXCEPT !.pc = "plain_extracted", !.out = r.out]
                      ELSE [s EXCEPT !.pc = "plain_error", !.err = r.err]
    /\ UNCHANGED <<enc, dec, imageVars, routeVars, videoVars, concVars, adapterVars>>

\* ------------------------------------------------------------------------
\* Video LSB codec: _video_lsb_embed, _video_lsb_extract
\* ------------------------------------------------------------------------
\* A frame is the sequence frame.ravel() of its uint8 elements.

\* n.to_bytes(8, "big")
to_bytes8(n) == <<0, 0, 0, 0>> \o to_bytes4(n)

RECURSIVE total_size(_)
\* sum(frame.size for frame in frames)
total_size(frames) ==
    IF frames = <<>> THEN 0
    ELSE Len(frames[Len(frames)])
         + total_size(SubSeq(frames, 1, Len(frames) - 1))

\* (mutant) every frame taking the bits from the start of the stream
bit_idx_restarting(frames, k) == 0

\* bit_idx when the loop of _video_lsb_embed reaches frames[k]: the number
\* of elements of the frames before it (capped by the stream at the use)
bit_idx_at(frames, k) == total_size(SubSeq(frames, 1, k - 1))

\* _video_lsb_embed(frames, message)
_video_lsb_embed(frames, message) ==
    IF frames = <<>>
    THEN [ok |-> FALSE, err |-> "ValueError: Input frame list is empty."]
    ELSE LET message_to_embed == STEGO_MAGIC \o message.val
             message_len_bytes == to_bytes8(Len(message_to_embed))
             bits_to_embed == bit_string(message_len_bytes \o message_to_embed)
             num_bits_to_embed == Len(bits_to_embed)
         IN  IF num_bits_to_embed > total_size(frames)
             THEN [ok |-> FALSE,
                   err |-> "ValueError: Video too short for LSB payload"]
             ELSE [ok |-> TRUE,
                   bit_stream |-> bits_to_embed,
                   out_frames |->
                     [k \in 1..Len(frames) |->
                        LET bit_idx == Min(bit_idx_at(frames, k), num_bits_to_embed)
                            embed_len == Min(Len(frames[k]),
                                             num_bits_to_embed - bit_idx)
                        IN  IF bit_idx >= num_bits_to_embed THEN frames[k]
                            ELSE [j \in 1..Len(frames[k]) |->
                                    IF j <= embed_len
                                    THEN set_lsb(frames[k][j],
                                                 bits_to_embed[bit_idx + j])
                                    ELSE frames[k][j]]]]

\* the pixel_iterator of _video_lsb_extract: the LSB of element i (from 1)
\* of the concatenated frames
RECURSIVE pixel_lsb(_, _)
pixel_lsb(frames, i) ==
    IF i <= Len(frames[1]) THEN frames[1][i] % 2
    ELSE pixel_lsb(Tail(frames), i - Len(frames[1]))

\* _video_lsb_extract(frames)
_video_lsb_extract(frames) ==
    LET total_pixels == total_size(frames)
        read(from, n) == [j \in 1..n |-> pixel_lsb(frames, from + j)]
        empty == bytes(<<>>)
    IN  IF frames = <<>> THEN empty
        ELSE IF total_pixels < 64 THEN empty
        ELSE LET message_len == int2(read(0, 64))
                 max_len == (total_pixels - 64) \div 8
             IN  IF ~(0 < message_len /\ message_len <= max_len) THEN empty
                 ELSE IF total_pixels < 64 + message_len * 8 THEN empty
                 ELSE LET extracted_bytes ==
                              bytes_of_bits(read(64, message_len * 8))
                          m == Len(STEGO_MAGIC)
                      IN  IF Len(extracted_bytes) >= m
                             /\ SubSeq(extracted_bytes, 1, m) = STEGO_MAGIC
                          THEN bytes(SubSeq(extracted_bytes, m + 1,
                                            Len(extracted_bytes)))
                          ELSE empty

\* Inputs of the video codec: lists of equally sized frames
ElementValue(fill, i) ==
    CASE fill = "black" -> 0
      [] fill = "white" -> 255
      [] OTHER -> (11 * i + 5) % 256
FrameSizes == {12, 48, 176, 184}
FrameCounts == {0, 1, 2, 4, 5}
Videos ==
    {[k \in 1..n |-> [j \in 1..sz |-> ElementValue(f, (k - 1) * sz + j)]] :
        n \in FrameCounts, sz \in FrameSizes, f \in Fills}

IdleVid ==
    [pc |-> "idle", frames |-> <<>>, message |-> bytes(<<>>),
     bit_stream |-> <<>>, out_frames |-> <<>>, err |-> None,
     out |-> bytes(<<>>)]

VideoEmbed ==
    /\ vid.pc = "idle"
    /\ \E frames \in Videos, m \in ImageMessages :
           LET r == _video_lsb_embed(frames, bytes(m))
               s == [IdleVid EXCEPT !.frames = frames, !.message = bytes(m)]
           IN  vid' = IF r.ok
                      THEN [s EXCEPT !.pc = "embedded",
                                     !.bit_stream = r.bit_stream,
                                     !.out_frames = r.out_frames]
                      ELSE [s EXCEPT !.pc = "error", !.err = r.err]
    /\ UNCHANGED <<enc, dec, imageVars, routeVars, audioVars, concVars, adapterVars>>

\* _video_lsb_extract on the frames _video_lsb_embed returned
VideoExtract ==
    /\ vid.pc = "embedded"
    /\ vid' = [vid EXCEPT !.pc = "extracted",
                          !.out = _video_lsb_extract(vid.out_frames)]
    /\ UNCHANGED <<enc, dec, imageVars, routeVars, audioVars, concVars, adapterVars>>

\* _video_lsb_extract on frames nothing was embedded in
VideoExtractPlain ==
    /\ vid.pc = "idle"
    /\ \E frames \in Videos :
           vid' = [IdleVid EXCEPT !.pc = "plain_extracted", !.frames = frames,
                                  !.out = _video_lsb_extract(frames)]
    /\ UNCHANGED <<enc, dec, imageVars, routeVars, audioVars, concVars, adapterVars>>

\* ------------------------------------------------------------------------
\* Video motion-vector codec: _video_mv_embed, _video_mv_extract
\* ------------------------------------------------------------------------
\* A frame read from the capture is [id, corners]: corners tells whether
\* goodFeaturesToTrack finds corners in it that calcOpticalFlowPyrLK then
\* tracks into the next frame (good_new is not empty for that pair).
tracked(prev, frame) == prev.corners

\* _video_mv_embed(cap, message): the frames are counted, none is changed
_video_mv_embed(cap, message) ==
    LET bits_to_embed == bit_string(message.val) \o [k \in 1..8 |-> 1]
        pairs == {k \in 2..Len(cap) : tracked(cap[k - 1], cap[k])}
        idx == Min(Cardinality(pairs), Len(bits_to_embed))
    IN  IF cap = <<>> THEN [ok |-> FALSE, err |-> "ValueError: Empty video"]
        ELSE IF idx < Len(bits_to_embed)
        THEN [ok |-> FALSE,
              err |-> "ValueError: Video too short for MotionVector payload"]
        ELSE [ok |-> TRUE, bit_stream |-> bits_to_embed,
              frames |-> SubSeq(cap, 2, Len(cap))]

\* _video_mv_extract(cap).  good_new = p1[st == 1] has two dimensions, so
\* good_new[0, 0, 0] at line 617 raises IndexError for the first tracked
\* pair; with no tracked pair no bit is read and the delimiter is not found.
_video_mv_extract(cap) ==
    IF cap = <<>> THEN [ok |-> TRUE, out |-> bytes(<<>>)]
    ELSE IF \E k \in 2..Len(cap) : tracked(cap[k - 1], cap[k])
    THEN [ok |-> FALSE, err |-> "IndexError: too many indices for array"]
    ELSE [ok |-> TRUE, out |-> bytes(<<>>)]

\* Inputs: captures given by their length and by where the corners are
HasCorners(pattern, k) ==
    CASE pattern = "all" -> TRUE
      [] pattern = "none" -> FALSE
      [] pattern = "alternate" -> k % 2 = 1
      [] OTHER -> k > 1
CornerPatterns == {"all", "none", "alternate", "all_but_first"}
CaptureLengths == {0, 1, 9, 10, 17, 18, 26, 34}
Captures ==
    {[k \in 1..n |-> [id |-> k, corners |-> HasCorners(p, k)]] :
        n \in CaptureLengths, p \in CornerPatterns}

MvEmbed ==
    /\ vid.pc = "idle"
    /\ \E cap \in Captures, m \in ImageMessages :
           LET r == _video_mv_embed(cap, bytes(m))
               s == [IdleVid EXCEPT !.frames = cap, !.message = bytes(m)]
           IN  vid' = IF r.ok
                      THEN [s EXCEPT !.pc = "mv_embedded",
                                     !.bit_stream = r.bit_stream,
                                     !.out_frames = r.frames]
                      ELSE [s EXCEPT !.pc = "mv_error", !.err = r.err]
    /\ UNCHANGED <<enc, dec, imageVars, routeVars, audioVars, concVars, adapterVars>>

\* _video_mv_extract on the frames _video_mv_embed returned
MvExtract ==
    /\ vid.pc = "mv_embedded"
    /\ LET r == _video_mv_extract(vid.out_frames)
       IN  vid' = IF r.ok
                  THEN [vid EXCEPT !.pc = "mv_extracted", !.out = r.out]
                  ELSE [vid EXCEPT !.pc = "mv_extract_error", !.err = r.err]
    /\ UNCHANGED <<enc, dec, imageVars, routeVars, audioVars, concVars, adapterVars>>

\* ------------------------------------------------------------------------
\* Audio phase coding: _phase_embed, _phase_extract
\* ------------------------------------------------------------------------
\* A block of 2048 samples is held by the value <<re, im>> of the bin
\* len(dft) // 4 of its real FFT, the only bin the codec reads or writes;
\* np.fft.irfft followed by np.fft.rfft gives that value back.  The samples
\* are [blocks, rest]: the whole blocks and the count of samples after them.
block_size == 2048

\* np.abs(z), for the values the model draws (|z| is an integer)
np_abs(z) == CHOOSE m \in 0..16 : m * m = z[1] * z[1] + z[2] * z[2]

\* np.abs(z) * np.exp(1j * np.pi / 2) for bit "1", with -1j for bit "0":
\* magnitude |z| at +90 or -90 degrees; a zero magnitude gives zero
set_phase(z, bit) == <<0, IF bit = 1 THEN np_abs(z) ELSE -np_abs(z)>>

\* np.angle(z) > 0
angle_positive(z) == z[2] > 0 \/ (z[2] = 0 /\ z[1] < 0)

\* the bit _phase_extract appends for a block
phase_bit(z) == IF angle_positive(z) THEN 1 ELSE 0

\* len(samples)
samples_len(samples) == block_size * Len(samples.blocks) + samples.rest

\* _phase_embed(samples, sr, message)
_phase_embed(samples, message) ==
    LET message_to_embed == STEGO_MAGIC \o message.val
        message_len_bytes == to_bytes4(Len(message_to_embed))
        bit_stream == bit_string(message_len_bytes \o message_to_embed)
    IN  IF Len(bit_stream) * block_size > samples_len(samples)
        THEN [ok |-> FALSE,
              err |-> "ValueError: Audio too short for PhaseCoding payload"]
        ELSE [ok |-> TRUE, bit_stream |-> bit_stream,
              stego |-> [samples EXCEPT !.blocks =
                            [i \in 1..Len(samples.blocks) |->
                                IF i <= Len(bit_stream)
                                THEN set_phase(samples.blocks[i], bit_stream[i])
                                ELSE samples.blocks[i]]]]

\* _phase_extract(samples, sr)
_phase_extract(samples) ==
    LET num_blocks == Len(samples.blocks)
        bit_stream == [i \in 1..num_blocks |-> phase_bit(samples.blocks[i])]
        empty == bytes(<<>>)
    IN  IF num_blocks < 32 THEN empty
        ELSE LET message_len == int2(SubSeq(bit_stream, 1, 32))
                 max_len == (num_blocks - 32) \div 8
             IN  IF ~(0 < message_len /\ message_len <= max_len) THEN empty
                 ELSE IF num_blocks < 32 + message_len * 8 THEN empty
                 ELSE LET extracted_bytes ==
                              bytes_of_bits(SubSeq(bit_stream, 33,
                                                   32 + message_len * 8))
                          m == Len(STEGO_MAGIC)
                      IN  IF Len(extracted_bytes) >= m
                             /\ SubSeq(extracted_bytes, 1, m) = STEGO_MAGIC
                          THEN bytes(SubSeq(extracted_bytes, m + 1,
                                            Len(extracted_bytes)))
                          ELSE empty

\* Inputs of the phase codec
BinValues == <<<<3, 4>>, <<-5, 0>>, <<0, -2>>, <<6, -8>>>>
BlockValue(pattern, i) ==
    CASE pattern = "silence" -> <<0, 0>>
      [] pattern = "tone" -> <<3, 4>>
      [] pattern = "one_silent_block" -> IF i = 2 THEN <<0, 0>> ELSE <<6, -8>>
      [] OTHER -> BinValues[(i % 4) + 1]
BlockPatterns == {"silence", "tone", "one_silent_block", "music"}
BlockCounts == {31, 143, 144, 152, 160}
PhaseCarriers ==
    {[blocks |-> [i \in 1..n |-> BlockValue(p, i)], rest |-> r] :
        n \in BlockCounts, p \in BlockPatterns, r \in {0, 100}}

PhaseEmbed ==
    /\ aud.pc = "idle"
    /\ \E samples \in PhaseCarriers, m \in ImageMessages :
           LET r == _phase_embed(samples, bytes(m))
               s == [IdleAud EXCEPT !.carrier = samples, !.message = bytes(m)]
           IN  aud' = IF r.ok
                      THEN [s EXCEPT !.pc = "phase_embedded",
                                     !.bit_stream = r.bit_stream,
                                     !.file = r.stego]
                      ELSE [s EXCEPT !.pc = "phase_error", !.err = r.err]
    /\ UNCHANGED <<enc, dec, imageVars, routeVars, videoVars, concVars, adapterVars>>

\* _phase_extract on the samples _phase_embed returned
PhaseExtract ==
    /\ aud.pc = "phase_embedded"
    /\ aud' = [aud EXCEPT !.pc = "phase_extracted",
                          !.out = _phase_extract(aud.file)]
    /\ UNCHANGED <<enc, dec, imageVars, routeVars, videoVars, concVars, adapterVars>>

\* ------------------------------------------------------------------------
\* Two concurrent requests: embed_message and extract_message of
\* routes/stenography.py, each handler one process over the files of /tmp
\* ------------------------------------------------------------------------
RECURSIVE dec_run(_)
\* the loop of decrypt_data run to its end
dec_run(d) ==
    IF d.pc = "loop" /\ d.it <= Len(d.layers) THEN dec_run(dec_iter(d))
    ELSE IF d.pc = "loop" THEN dec_return(d)
    ELSE d

\* decrypt_data(encrypted_data, password, hash_name, encryption_layers, codebook)
decrypt_data(encrypted_data, password, hash_name, encryption_layers, codebook) ==
    dec_run(dec_start(encrypted_data, password, hash_name, encryption_layers,
                      codebook))

\* extract_message_from_image(image_path, technique)
extract_message_from_image(img, technique) ==
    IF lower(technique) = "lsb"
    THEN lsb_extract_image(img)
    ELSE [ok |-> FALSE, err |-> "ValueError: Unsupported image technique"]

\* an audio upload, and the file hide_message_in_audio saves for it: the
\* samples are not enumerated, the stego file is the one determined by the
\* carrier and the payload
Wav(name) == [kind |-> "wav", name |-> name]
stego_wav(carrier, payload) ==
    [kind |-> "wav", stego_of |-> carrier, payload |-> payload]

\* a 2 x 2 RGB image: 12 channel values, fewer than the 32 of a length prefix
Image2 ==
    [mode |-> "RGB", width |-> 2, height |-> 2, fill |-> "black", over |-> <<>>]

\* Inputs of the concurrent requests: uploads of one kind share their name
ConcIds == {1, 2}
ConcUploads ==
    {[filename |-> "cover.png", content_type |-> "image/png", content |-> c] :
        c \in {Image100, Image2}}
    \cup {[filename |-> "cover.wav", content_type |-> "audio/wav",
           content |-> Wav(n)] : n \in {"a", "b"}}
    \cup {[filename |-> "cover.txt", content_type |-> "text/plain",
           content |-> Wav("t")]}
ConcAlgoFields == {<<"AES">>, <<"ARC4">>, <<"bogus">>}
ConcTechniques == {"LSB"}
ConcUuids == {"u1", "u2", "u3", "u4"}
IdleReqs == [i \in ConcIds |-> [pc |-> "idle"]]

\* (mutant) the temporary name without the uuid
temp_path_without_uuid(u, filename) == <<"/tmp", "temp", "", filename>>

\* os.path.join("/tmp", f"temp_{uuid.uuid4().hex}_{file.filename}")
conc_temp_path(u, filename) == <<"/tmp", "temp", u, filename>>

\* f"/tmp/output_{uuid.uuid4().hex}.{file.filename.split('.')[-1]}"
conc_output_path(u, filename) ==
    <<"/tmp", "output", u,
      IF filename = "cover.png" THEN "png"
      ELSE IF filename = "cover.wav" THEN "wav" ELSE "txt">>

\* "/tmp/" + "embedded_" + splitext(basename(audio_path))[0] + ".wav", for
\* the temporary file of an upload named cover.wav
embedded_wav(audio_path) ==
    <<"/tmp", "embedded_temp", audio_path[3], audio_path[4]>>

\* the handler leaves its try block with exception e
conc_raise(h, e) == [h EXCEPT !.pc = "except", !.exc = e]

\* lines 130-136 and 221-226: the upload is written under a fresh name
conc_receive(kind, file, algos, hash, technique, u, disk) ==
    LET path == conc_temp_path(u, file.filename)
    IN  [h |-> [pc |-> "saved", kind |-> kind, file |-> file,
                message |-> "HELLO", password |-> <<"p", "w">>,
                encryption_algos |-> algos, hash_function |-> hash,
                stenographic_technique |-> technique, first_uuid |-> u,
                second_uuid |-> None, rnd |-> <<>>,
                temp_file_path |-> path, output_file_name |-> None,
                output_path |-> None, b64_payload |-> None,
                codebook |-> None, b64_str |-> None, exc |-> None,
                response |-> None, touched |-> {path}],
         fs |-> put(disk, path, file.content)]

\* lines 138-169 of embed_message: the pre-flight check, encrypt_data and
\* the output name
conc_embed_encrypt(h, u, rnd) ==
    LET encryption_layers ==
            [i \in 1..Len(h.encryption_algos) |-> strip(h.encryption_algos[i])]
        unsupported_algos ==
            {i \in 1..Len(encryption_layers) :
                upper(encryption_layers[i]) \notin SUPPORTED_ENCRYPTION_ALGORITHMS}
        e == encrypt_data(plain(h.message), h.password, encryption_layers,
                          h.hash_function, rnd)
    IN  IF unsupported_algos # {}
        THEN conc_raise(h, "HTTPException 400: Unsupported encryption algorithm(s)")
        ELSE IF e.pc = "error"
        THEN conc_raise([h EXCEPT !.rnd = rnd], e.err)
        ELSE [h EXCEPT !.pc = "hide", !.second_uuid = u, !.rnd = rnd,
                       !.output_file_name = conc_output_path(u, h.file.filename),
                       !.b64_payload = e.result.encrypted_data,
                       !.codebook = e.result.codebook]

\* lines 173-193 of embed_message: the carrier is read from the temporary
\* file and the stego file is written
conc_embed_hide(h, disk) ==
    LET keep(g) == [h |-> g, fs |-> disk]
        missing == h.temp_file_path \notin DOMAIN disk
    IN  IF h.file.content_type = "image/png"
        THEN IF lower(h.stenographic_technique) # "lsb"
             THEN keep(conc_raise(h, "ValueError: Unsupported image technique"))
             ELSE IF missing
             THEN keep(conc_raise(h, "FileNotFoundError"))
             ELSE LET r == lsb_embed_image(disk[h.temp_file_path], h.b64_payload)
                  IN  IF r.pc = "saved"
                      THEN [h |-> [h EXCEPT !.pc = "remove",
                                            !.output_path = h.output_file_name,
                                            !.touched = @ \cup {h.output_file_name}],
                            fs |-> put(disk, h.output_file_name, r.saved)]
                      ELSE keep(conc_raise(h, r.err))
        ELSE IF h.file.content_type = "audio/wav"
        THEN IF missing
             THEN keep(conc_raise(h, "FileNotFoundError"))
             ELSE IF lower(h.stenographic_technique) # "lsb"
             THEN keep(conc_raise(h, "NotImplementedError: Audio technique not implemented."))
             ELSE LET out == embedded_wav(h.temp_file_path)
                  IN  [h |-> [h EXCEPT !.pc = "remove", !.output_path = out,
                                       !.touched = @ \cup {out}],
                       fs |-> put(disk, out,
                                  stego_wav(disk[h.temp_file_path], h.b64_payload))]
        ELSE keep(conc_raise(h, "HTTPException 400: Unsupported file type"))

\* os.remove(path) on the files of /tmp
os_remove(disk, path) == [q \in DOMAIN disk \ {path} |-> disk[q]]

\* lines 195-202 of embed_message: the temporary file is removed and the
\* result returned
conc_embed_remove(h, disk) ==
    IF h.temp_file_path \notin DOMAIN disk
    THEN [h |-> conc_raise(h, "FileNotFoundError"), fs |-> disk]
    ELSE [h |-> [h EXCEPT !.pc = "done",
                          !.response = [status |-> 200,
                                        output_path |-> h.output_path,
                                        codebook |-> h.codebook]],
          fs |-> os_remove(disk, h.temp_file_path)]

\* lines 228-243 of extract_message: the hidden string is read from the
\* temporary file (the uploads of an extract request are images and files
\* that are no media)
conc_extract_read(h, disk) ==
    IF h.file.content_type = "image/png"
    THEN IF lower(h.stenographic_technique) # "lsb"
         THEN conc_raise(h, "ValueError: Unsupported image technique")
         ELSE IF h.temp_file_path \notin DOMAIN disk
         THEN conc_raise(h, "FileNotFoundError")
         ELSE LET r == extract_message_from_image(disk[h.temp_file_path],
                                                  h.stenographic_technique)
              IN  IF r.ok THEN [h EXCEPT !.pc = "remove", !.b64_str = r.out]
                  ELSE conc_raise(h, r.err)
    ELSE conc_raise(h, "HTTPException 400: Unsupported file type")

\* line 246 of extract_message
conc_extract_remove(h, disk) ==
    IF h.temp_file_path \notin DOMAIN disk
    THEN [h |-> conc_raise(h, "FileNotFoundError"), fs |-> disk]
    ELSE [h |-> [h EXCEPT !.pc = "decrypt"],
          fs |-> os_remove(disk, h.temp_file_path)]

\* b64_str.encode() + b"=" * (4 - len(b64_str.encode()) % 4), as
\* base64.b64decode reads it: an empty string padded to "====" decodes to
\* the empty byte string (the carriers of an extract request hold no
\* payload: the string read from them is empty)
padded(b64_str) ==
    IF b64_str.val = <<>> THEN b64encode(plain(""))
    ELSE b64encode([base |-> b64_str.val, ks |-> {}])

\* lines 248-296 of extract_message, called with encryption_algos and
\* hash_function and without a codebook
conc_extract_decrypt(h) ==
    LET layers == [i \in 1..Len(h.encryption_algos) |->
                      strip(h.encryption_algos[i])]
        d == decrypt_data(padded(h.b64_str), h.password, h.hash_function,
                          Some(layers),
                          Some([layers |-> layers, hash |-> h.hash_function,
                                nonces |-> <<>>, tags |-> <<>>]))
    IN  IF d.pc = "error" THEN conc_raise(h, d.err)
        ELSE [h EXCEPT !.pc = "done",
                       !.response = [status |-> 200, message |-> d.ret]]

\* lines 203-205 and 297-299: every exception becomes HTTP 500 with its text
conc_except(h) ==
    [h EXCEPT !.pc = "done", !.response = [status |-> 500, detail |-> h.exc]]

\* uuid.uuid4(): a value that was not returned before
uuid4(u) == u \in ConcUuids \ uuids

ConcReceive(i) ==
    /\ reqs[i].pc = "idle"
    /\ \E kind \in {"embed", "extract"}, file \in ConcUploads,
          algos \in ConcAlgoFields, t \in ConcTechniques, u \in ConcUuids :
          /\ uuid4(u)
          /\ kind = "extract" => file.content_type # "audio/wav"
          /\ LET r == conc_receive(kind, file, algos, "sha256", t, u, fs)
             IN  /\ reqs' = [reqs EXCEPT ![i] = r.h]
                 /\ fs' = r.fs
          /\ uuids' = uuids \cup {u}
    /\ UNCHANGED <<enc, dec, imageVars, req, audioVars, videoVars, adapterVars>>

ConcEmbedEncrypt(i) ==
    /\ reqs[i].pc = "saved" /\ reqs[i].kind = "embed"
    /\ \E u \in ConcUuids, rnd \in [1..Len(reqs[i].encryption_algos) -> {"n0"}] :
          /\ uuid4(u)
          /\ reqs' = [reqs EXCEPT ![i] = conc_embed_encrypt(@, u, rnd)]
          /\ uuids' = uuids \cup {u}
    /\ UNCHANGED <<enc, dec, imageVars, routeVars, audioVars, videoVars, adapterVars>>

ConcEmbedHide(i) ==
    /\ reqs[i].pc = "hide"
    /\ LET r == conc_embed_hide(reqs[i], fs)
       IN  reqs' = [reqs EXCEPT ![i] = r.h] /\ fs' = r.fs
    /\ UNCHANGED <<enc, dec, imageVars, req, audioVars, videoVars, uuids, adapterVars>>

ConcEmbedRemove(i) ==
    /\ reqs[i].pc = "remove" /\ reqs[i].kind = "embed"
    /\ LET r == conc_embed_remove(reqs[i], fs)
       IN  reqs' = [reqs EXCEPT ![i] = r.h] /\ fs' = r.fs
    /\ UNCHANGED <<enc, dec, imageVars, req, audioVars, videoVars, uuids, adapterVars>>

ConcExtractRead(i) ==
    /\ reqs[i].pc = "saved" /\ reqs[i].kind = "extract"
    /\ reqs' = [reqs EXCEPT ![i] = conc_extract_read(@, fs)]
    /\ UNCHANGED <<enc, dec, imageVars, routeVars, audioVars, videoVars, uuids, adapterVars>>

ConcExtractRemove(i) ==
    /\ reqs[i].pc = "remove" /\ reqs[i].kind = "extract"
    /\ LET r == conc_extract_remove(reqs[i], fs)
       IN  reqs' = [reqs EXCEPT ![i] = r.h] /\ fs' = r.fs
    /\ UNCHANGED <<enc, dec, imageVars, req, audioVars, videoVars, uuids, adapterVars>>

ConcExtractDecrypt(i) ==
    /\ reqs[i].pc = "decrypt"
    /\ reqs' = [reqs EXCEPT ![i] = conc_extract_decrypt(@)]
    /\ UNCHANGED <<enc, dec, imageVars, routeVars, audioVars, videoVars, uuids, adapterVars>>

ConcExcept(i) ==
    /\ reqs[i].pc = "except"
    /\ reqs' = [reqs EXCEPT ![i] = conc_except(@)]
    /\ UNCHANGED <<enc, dec, imageVars, routeVars, audioVars, videoVars, uuids, adapterVars>>

\* ------------------------------------------------------------------------
\* The XOR adapter of services/encryption/encryption_service.py
\* ------------------------------------------------------------------------
MaxXorLen == 3

RECURSIVE bit_xor(_, _)
\* a ^ b on non-negative integers
bit_xor(a, b) ==
    IF a = 0 THEN b
    ELSE IF b = 0 THEN a
    ELSE ((a + b) % 2) + 2 * bit_xor(a \div 2, b \div 2)

RECURSIVE times(_, _)
\* key * n: the sequence repeated n times
times(key, n) == IF n <= 0 THEN <<>> ELSE key \o times(key, n - 1)

\* zip(a, b): the pairs up to the end of the shorter sequence
zip(a, b) == [i \in 1..Min(Len(a), Len(b)) |-> <<a[i], b[i]>>]

\* (mutant) the key paired with the data without being repeated
encrypt_xor_uncycled(data, key) ==
    [i \in 1..Len(zip(data, key)) |->
        bit_xor(zip(data, key)[i][1], zip(data, key)[i][2])]

\* bytes(a ^ b for a, b in zip(data, key * ((len(data) // len(key)) + 1)))
encrypt_xor(data, key) ==
    LET pairs == zip(data, times(key, (Len(data) \div Len(key)) + 1))
    IN  [i \in 1..Len(pairs) |-> bit_xor(pairs[i][1], pairs[i][2])]

\* the same expression on encrypted_data
decrypt_xor(encrypted_data, key) ==
    LET pairs == zip(encrypted_data,
                     times(key, (Len(encrypted_data) \div Len(key)) + 1))
    IN  [i \in 1..Len(pairs) |-> bit_xor(pairs[i][1], pairs[i][2])]

XorBytes == {0, 90, 255}
XorData == UNION {[1..n -> XorBytes] : n \in 0..MaxXorLen}
XorKeys == UNION {[1..n -> XorBytes] : n \in 0..MaxXorLen}
RandomKeys == {<<165>>}

IdleXor == [pc |-> "idle", data |-> <<>>, key |-> <<>>,
            encrypted_data |-> <<>>, decrypted_data |-> <<>>]

\* _encrypt_xor(data, key, mode, key_size): a missing or empty key is
\* replaced by random bytes, and the key used is returned with the result
EncryptXor ==
    /\ xr.pc = "idle"
    /\ \E data \in XorData, key \in XorKeys, rand \in RandomKeys :
          LET k == IF key = <<>> THEN rand ELSE key
          IN  xr' = [pc |-> "encrypted", data |-> data, key |-> k,
                     encrypted_data |-> encrypt_xor(data, k),
                     decrypted_data |-> <<>>]
    /\ UNCHANGED <<enc, dec, imageVars, routeVars, audioVars, videoVars,
                   concVars, svc, kd>>

\* _decrypt_xor(encrypted_data, key, ...) with the key of the result
DecryptXor ==
    /\ xr.pc = "encrypted"
    /\ xr' = [xr EXCEPT !.pc = "decrypted",
                        !.decrypted_data = decrypt_xor(xr.encrypted_data, xr.key)]
    /\ UNCHANGED <<enc, dec, imageVars, routeVars, audioVars, videoVars,
                   concVars, svc, kd>>

\* ------------------------------------------------------------------------
\* ImageSteganographyService of
\* services/steganography/image/image_steganography_service.py, algorithm LSB
\* ------------------------------------------------------------------------
MaxSvcLen == 2

\* np.array(Image.open(path).convert("RGBA")): the channel values in
\* row-major, channel-minor order
svc_pixels(img) ==
    [k \in 1..(img.width * img.height * 4) |-> FillValue(img.fill, k - 1)]

\* _lsb_steganography(image_path, data, output_path): the saved array
svc_lsb_steganography(img, data) ==
    LET pixels == svc_pixels(img)
        data_len == Len(bit_string(data))
        binary_data == bit_string(to_bytes4(data_len)) \o bit_string(data)
    IN  IF data_len + 32 > img.width * img.height * 4
        THEN [ok |-> FALSE,
              err |-> "FileProcessingException: Data is too large to hide in the image."]
        ELSE [ok |-> TRUE,
              pixels |-> [k \in 1..Len(pixels) |->
                             IF k <= Len(binary_data)
                             THEN set_lsb(pixels[k], binary_data[k])
                             ELSE pixels[k]]]

\* _lsb_extraction(image_path, data_length) with data_length None.  The
\* second triple loop starts again at the first channel value with
\* data_idx = 32, so its test data_idx > 31 holds from the first value on.
svc_lsb_extraction(pixels) ==
    IF Len(pixels) < 32
    THEN [ok |-> FALSE,
          err |-> "FileProcessingException: Could not extract data length from image."]
    ELSE LET actual_data_length == int2([k \in 1..32 |-> pixels[k] % 2])
             binary_data_bits ==
                 [k \in 1..Min(actual_data_length, Len(pixels)) |-> pixels[k] % 2]
         IN  IF Len(binary_data_bits) < actual_data_length
             THEN [ok |-> FALSE,
                   err |-> "FileProcessingException: Incomplete data extracted from image."]
             ELSE [ok |-> TRUE, extracted_data |-> bytes_of_bits(binary_data_bits)]

SvcBytes == {0, 65, 255}
SvcData == UNION {[1..n -> SvcBytes] : n \in 0..MaxSvcLen}
SvcCarriers ==
    {[width |-> s[1], height |-> s[2], fill |-> f] :
        s \in {<<3, 3>>, <<4, 3>>, <<4, 4>>}, f \in Fills}

IdleSvc == [pc |-> "idle", carrier |-> NoImage, data |-> <<>>,
            pixels |-> <<>>, err |-> None, extracted_data |-> <<>>]

\* embed_data(image_path, data, LSB)
SvcEmbed ==
    /\ svc.pc = "idle"
    /\ \E img \in SvcCarriers, data \in SvcData :
          LET r == svc_lsb_steganography(img, data)
          IN  svc' = IF r.ok
                     THEN [IdleSvc EXCEPT !.pc = "embedded", !.carrier = img,
                                          !.data = data, !.pixels = r.pixels]
                     ELSE [IdleSvc EXCEPT !.pc = "error", !.carrier = img,
                                          !.data = data, !.err = r.err]
    /\ UNCHANGED <<enc, dec, imageVars, routeVars, audioVars, videoVars,
                   concVars, xr, kd>>

\* extract_data(output_file_path, LSB)
SvcExtract ==
    /\ svc.pc = "embedded"
    /\ LET r == svc_lsb_extraction(svc.pixels)
       IN  svc' = IF r.ok
                  THEN [svc EXCEPT !.pc = "extracted",
                                   !.extracted_data = r.extracted_data]
                  ELSE [svc EXCEPT !.pc = "extract_error", !.err = r.err]
    /\ UNCHANGED <<enc, dec, imageVars, routeVars, audioVars, videoVars,
                   concVars, xr, kd>>

\* ------------------------------------------------------------------------
\* _kdf called for two (password, layer index) pairs
\* ------------------------------------------------------------------------
MaxIndex == 11

KdfPasswords == {<<"p">>, <<"p", "1">>, <<"q">>}
KdfHashes == {"sha256", "shake128"}
KdfSizes == {16, 32}
IdleKdf == [pc |-> "idle"]

\* two layer keys derived with the same hash and size
KdfPair ==
    /\ kd.pc = "idle"
    /\ \E p1 \in KdfPasswords, p2 \in KdfPasswords, i1 \in 0..MaxIndex,
          i2 \in 0..MaxIndex, h \in KdfHashes, size \in KdfSizes :
          kd' = [pc |-> "derived", password1 |-> p1, index1 |-> i1,
                 password2 |-> p2, index2 |-> i2,
                 key1 |-> _kdf(p1, h, size, i1), key2 |-> _kdf(p2, h, size, i2)]
    /\ UNCHANGED <<enc, dec, imageVars, routeVars, audioVars, videoVars,
                   concVars, xr, svc>>

\* ------------------------------------------------------------------------
\* Properties of the layered cipher engine (checked under Spec)
\* ------------------------------------------------------------------------
DecFinished == dec.pc \in {"returned", "error"}
SamePassword == dec.password = enc.password
OwnCodebook == dec.codebook = Some(enc.result.codebook)
HasEax(layers) == \E i \in 1..Len(layers) : lower(layers[i]) \in EaxAlgos

\* C1: whenever encrypt_data has succeeded on a non-empty chain, decrypt_data
\* given the returned encrypted_data, the same password and the returned
\* codebook ends by returning exactly the original data.
C1_RoundTrip ==
    (DecFinished /\ SamePassword /\ OwnCodebook
        /\ Len(enc.encryption_layers) > 0)
    => (dec.pc = "returned" /\ dec.ret = enc.data)

C1_Witness ==
    /\ dec.pc = "returned" /\ SamePassword /\ OwnCodebook
    /\ enc.encryption_layers = <<"AES", "ChaCha20">>
    /\ enc.data = plain("HELLO")
    /\ dec.ret = enc.data

TagMismatch(l) ==
    /\ lower(l.algo) \in EaxAlgos
    /\ l.key_name \in DOMAIN dec.nonces
    /\ l.key_name \in DOMAIN dec.tags
    /\ key_len_ok(lower(l.algo), l.key.len)
    /\ dec.tags[l.key_name]
         # mac(lower(l.algo), l.key, dec.nonces[l.key_name], l.ct)

\* C5: a layer whose tag does not verify is the last layer decrypt_data
\* touches: the call has ended in the MAC error at that layer, every layer
\* in the log has an index at least as large, and nothing is returned.
C5_FailClosed ==
    \A j \in 1..Len(dec.log) :
        TagMismatch(dec.log[j])
        => /\ j = Len(dec.log)
           /\ dec.pc = "error"
           /\ dec.err = "ValueError: MAC check failed"
           /\ dec.ret = NoBytes
           /\ \A i \in 1..Len(dec.log) : dec.log[i].idx >= dec.log[j].idx

C5_Witness ==
    /\ dec.pc = "error" /\ SamePassword /\ ~OwnCodebook
    /\ enc.encryption_layers = <<"AES", "AES">>
    /\ Len(dec.log) = 2
    /\ dec.log[2].idx = 0
    /\ TagMismatch(dec.log[2])

\* C6: encrypt_data handles the layers 0, 1, ... in increasing order, each
\* layer taking the previous layer's ciphertext; decrypt_data handles them
\* n-1, n-2, ... in decreasing order; at each index both use the same
\* algorithm, key size and metadata name, and the same key when the
\* password is the same.
C6_LayerOrdering ==
    /\ \A i \in 1..Len(enc.log) :
          /\ enc.log[i].idx = i - 1
          /\ enc.log[i].algo = enc.encryption_layers[i]
          /\ enc.log[i].pt = IF i = 1 THEN enc.data ELSE enc.log[i - 1].ct
          /\ enc.log[i].key
               = [h |-> _HASH_MAP[lower(enc.hash_name)],
                  data |-> enc.password \o str(i - 1),
                  len |-> enc.log[i].key.len]
    /\ \A j \in 1..Len(dec.log) :
          /\ dec.log[j].idx = Len(dec.layers) - j
          /\ LET e == enc.log[dec.log[j].idx + 1]
             IN  /\ dec.log[j].algo = e.algo
                 /\ dec.log[j].key_size = e.key_size
                 /\ dec.log[j].key_name = e.key_name
                 /\ SamePassword => dec.log[j].key = e.key

C6_Witness ==
    /\ dec.pc = "returned" /\ SamePassword
    /\ enc.encryption_layers = <<"DES", "ChaCha20">>
    /\ Len(enc.log) = 2 /\ Len(dec.log) = 2
    /\ dec.log[1].idx = 1 /\ dec.log[2].idx = 0

\* C7 (as claimed): when encrypt_data rejects an algorithm it has no adapter
\* for, no layer of the chain has been encrypted.
C7_RejectedBeforeAnyLayer ==
    (enc.pc = "error" /\ enc.err = "ValueError: Unsupported algorithm")
    => enc.log = <<>>

\* C8 (as claimed): encrypt_data never returns a result for the empty chain.
C8_EmptyChainRejected ==
    ~(enc.pc = "returned" /\ enc.encryption_layers = <<>>)

\* C9 (as claimed): every key _kdf returns has exactly the requested size.
C9_KdfOutputSize ==
    enc.key # NoKey => enc.key.len = enc.key_size

\* C10 (as claimed): a call of encrypt_data with a hash name outside the
\* hash map ends in the 'Unsupported hash' error, for every chain, before
\* any layer has been applied.
C10_UnsupportedHashUpFront ==
    (enc.pc \in {"returned", "error"}
        /\ lower(enc.hash_name) \notin DOMAIN _HASH_MAP)
    => /\ enc.pc = "error"
       /\ enc.err = "ValueError: Unsupported hash"
       /\ enc.log = <<>>

\* C11 (as claimed): decrypt_data raises the 'Either encryption_layers or
\* codebook must be supplied.' error exactly when both arguments are None,
\* and given only encryption_layers it goes on to decrypt with that list and
\* raises no other error about its arguments.
C11_CodebookOrChain ==
    dec.pc # "idle"
    => /\ (dec.err = "ValueError: Either encryption_layers or codebook must be supplied.")
            <=> (IsNone(dec.encryption_layers) /\ IsNone(dec.codebook))
       /\ (~IsNone(dec.encryption_layers) /\ IsNone(dec.codebook))
            => /\ dec.err # "UnboundLocalError: nonces_b64"
               /\ dec.layers = dec.encryption_layers[1]

\* C21: the nonce and tag of every layer encrypt_data has applied stand in
\* the codebook under the layer's own name, also when the same algorithm is
\* repeated: the names of different layers differ, the entry under a
\* layer's name is the one that layer wrote (none is overwritten), and
\* decrypt_data looks each layer up under the name encrypt_data used.
C21_NoMetadataCollision ==
    /\ \A i \in 1..Len(enc.log) :
          LET l == enc.log[i]
              a == lower(l.algo)
          IN  /\ \A j \in 1..Len(enc.log) :
                    i # j => enc.log[j].key_name # l.key_name
              /\ a \in EaxAlgos \cup NonceStreamAlgos
                    => /\ l.key_name \in DOMAIN enc.nonces
                       /\ l.ct = xor(l.pt,
                                     keystream(a, l.key,
                                               b64decode(enc.nonces[l.key_name])))
              /\ a \in EaxAlgos
                    => /\ l.key_name \in DOMAIN enc.tags
                       /\ b64decode(enc.tags[l.key_name])
                            = mac(a, l.key, b64decode(enc.nonces[l.key_name]),
                                  l.ct)
    /\ \A j \in 1..Len(dec.log) :
          dec.log[j].key_name = enc.log[dec.log[j].idx + 1].key_name

C21_Witness ==
    /\ dec.pc = "returned" /\ SamePassword /\ OwnCodebook
    /\ enc.encryption_layers = <<"AES", "AES">>
    /\ enc.data = plain("HELLO")
    /\ Cardinality(DOMAIN enc.nonces) = 2
    /\ Cardinality(DOMAIN enc.tags) = 2
    /\ Len(dec.log) = 2

\* the names "{algo}_{i}" of the layers of chain c whose algorithm,
\* lower-cased, is in set A
NamesOf(c, A) == {<<c[i], i - 1>> : i \in {j \in 1..Len(c) : lower(c[j]) \in A}}

\* C26: after every successful encrypt_data on chain c with hash h the
\* codebook has layers c and hash h, its nonces map holds the name
\* "{algo}_{i}" exactly for the layers whose algorithm is not ARC4, its
\* tags map holds it exactly for the layers whose algorithm is one of AES,
\* DES, DES3, Blowfish, ARC2, CAST, and neither map holds another name.
C26_CodebookComplete ==
    enc.pc = "returned"
        => LET cb == enc.result.codebook
               c == enc.encryption_layers
           IN  /\ cb.layers = c
               /\ cb.hash = enc.hash_name
               /\ DOMAIN cb.nonces
                    = {<<c[i], i - 1>> : i \in {j \in 1..Len(c) : lower(c[j]) # "arc4"}}
               /\ DOMAIN cb.tags
                    = NamesOf(c, {"aes", "des", "des3", "blowfish", "arc2", "cast"})
C26_Witness ==
    /\ enc.pc = "returned"
    /\ enc.encryption_layers = <<"ARC4", "AES">>
    /\ DOMAIN enc.result.codebook.nonces = {<<"AES", 1>>}
    /\ DOMAIN enc.result.codebook.tags = {<<"AES", 1>>}

\* ------------------------------------------------------------------------
\* Properties of the engine under a swapped codebook (checked under SpecSwap)
\* ------------------------------------------------------------------------
TwoDistinctAlgos(layers) ==
    Len(layers) = 2 /\ lower(layers[1]) # lower(layers[2])

\* C20: for every chain [A, B] of two distinct algorithms, decrypt_data
\* given the ciphertext, nonces and tags of encrypt_data but the layers
\* list swapped to [B, A] never returns the original data.
C20_OrderIsLoadBearing ==
    (DecFinished
        /\ TwoDistinctAlgos(enc.encryption_layers)
        /\ dec.codebook = Some(swap_layers(enc.result.codebook)))
    => ~(dec.pc = "returned" /\ dec.ret = enc.data)

C20_Witness ==
    /\ dec.pc = "error" /\ SamePassword
    /\ enc.encryption_layers = <<"ARC4", "ChaCha20">>
    /\ dec.layers = <<"ChaCha20", "ARC4">>
    /\ enc.data = plain("")
    /\ Len(dec.log) = 2
    /\ dec.err = "KeyError: nonce"

\* ------------------------------------------------------------------------
\* Properties of the image LSB codec (checked under SpecImage)
\* ------------------------------------------------------------------------
FrameBits(m) == 32 + 8 * (14 + Len(m.val))
Capacity(img) == img.width * img.height * bands(img.mode)

\* C3: for every RGB or RGBA grid and every byte string (the empty one
\* included) whose frame of 32 + 8 * (14 + len) bits fits in
\* width * height * channels, lsb_embed_image succeeds and lsb_extract_image
\* applied to the image it saved returns exactly the byte string.
C3_ImageRoundTrip ==
    (lsb.pc \in {"error", "saved", "extracted", "extract_error"}
        /\ FrameBits(lsb.message) <= Capacity(lsb.carrier))
    => /\ lsb.pc \in {"saved", "extracted"}
       /\ lsb.pc = "extracted" => lsb.out = lsb.message

C3_Witness ==
    /\ lsb.pc = "extracted"
    /\ lsb.carrier.mode = "RGB"
    /\ lsb.carrier.fill = "ramp"
    /\ lsb.message = bytes(<<255>>)
    /\ lsb.out = lsb.message

\* C12: lsb_embed_image succeeds exactly when the frame of
\* 32 + 8 * (14 + len) bits is at most width * height * channels; at
\* equality it succeeds and the message is extracted again; when the frame
\* is larger it raises and no output image is written.
C12_CapacityBoundary ==
    lsb.pc \in {"error", "saved", "extracted", "extract_error"}
    => /\ (lsb.pc # "error")
            <=> (FrameBits(lsb.message) <= Capacity(lsb.carrier))
       /\ lsb.pc = "error"
            => /\ lsb.err = "ValueError: Image too small for LSB payload"
               /\ lsb.saved = NoImage
       /\ FrameBits(lsb.message) = Capacity(lsb.carrier)
            => /\ lsb.pc # "extract_error"
               /\ lsb.pc = "extracted" => lsb.out = lsb.message

C12_Witness ==
    /\ lsb.pc = "extracted"
    /\ lsb.carrier.mode = "RGBA"
    /\ Len(lsb.message.val) = 1
    /\ FrameBits(lsb.message) = Capacity(lsb.carrier)
    /\ lsb.out = lsb.message

\* the channel value at flattened index k (from 0), row-major, channel-minor
channel_at(img, k) ==
    LET n == bands(img.mode)
        p == k \div n
    IN  getpixel(img, p % img.width, p \div img.width)[(k % n) + 1]

\* C27: for an RGB or RGBA carrier a successful lsb_embed_image changes at
\* most the least-significant bit of the first frame_bit_length channel
\* values in row-major, channel-minor order (the k-th frame bit becomes the
\* LSB of the k-th channel value); the upper seven bits of every channel
\* value and every channel value at flattened index >= frame_bit_length
\* are unchanged.
C27_ImageFrameEffect ==
    lsb.pc \in {"saved", "extracted", "extract_error"}
        => /\ lsb.saved.mode = lsb.carrier.mode
           /\ lsb.saved.width = lsb.carrier.width
           /\ lsb.saved.height = lsb.carrier.height
           /\ Len(lsb.binary_message) = FrameBits(lsb.message)
           /\ \A k \in 0..(Capacity(lsb.carrier) - 1) :
                 LET old == channel_at(lsb.carrier, k)
                     new == channel_at(lsb.saved, k)
                 IN  /\ new \div 2 = old \div 2
                     /\ k < FrameBits(lsb.message)
                           => new % 2 = lsb.binary_message[k + 1]
                     /\ k >= FrameBits(lsb.message) => new = old
C27_Witness ==
    /\ lsb.pc = "saved"
    /\ lsb.carrier.mode = "RGB" /\ lsb.carrier.fill = "ramp"
    /\ lsb.carrier.width = 17
    /\ lsb.message = bytes(<<65>>)
    /\ FrameBits(lsb.message) < Capacity(lsb.carrier)
    /\ \E k \in 0..(FrameBits(lsb.message) - 1) :
          channel_at(lsb.saved, k) # channel_at(lsb.carrier, k)

\* C13 (as claimed): when the frame does not fit the carrier, the embedder
\* raises before any value of the carrier has been overwritten and before
\* any output has been written: in every state of such an embedding the
\* pixel buffer equals the carrier as opened and nothing is saved.
C13_CapacityCheckedBeforeWrite ==
    FrameBits(lsb.message) > Capacity(lsb.carrier)
    => /\ lsb.img = lsb.carrier
       /\ lsb.saved = NoImage

\* C14 (as claimed): lsb_extract_image applied to an image nothing was
\* embedded in, whatever its content and size (fewer than 32 channel values
\* included), returns the empty byte string and never raises.
C14_PlainCarrierYieldsEmpty ==
    /\ lsb.pc # "plain_error"
    /\ lsb.pc = "plain_extracted" => lsb.out = bytes(<<>>)

\* ------------------------------------------------------------------------
\* Properties of the audio LSB codec (checked under SpecAudio)
\* ------------------------------------------------------------------------
\* C16 (as claimed): for every 16-bit sample buffer and every message whose
\* frame fits one bit per sample, every LSB of the saved file equals the
\* bit _lsb_embed wrote, and extraction from the saved file returns exactly
\* the message.
C16_AudioRoundTrip ==
    /\ aud.pc \in {"saved", "extracted"}
         => \A i \in 1..Len(aud.bit_stream) : aud.file[i] % 2 = aud.bit_stream[i]
    /\ aud.pc = "extracted" => aud.out = aud.message
    /\ aud.pc # "extract_error"

\* C29 (as claimed): for a carrier read from 16-bit samples k, the samples
\* of the file saved by hide_message_in_audio with technique LSB differ from
\* the carrier only in the least-significant bit of the first
\* frame_bit_length samples: every later sample keeps its value k and the
\* upper 15 bits of every sample are unchanged.
C29_AudioFrameEffect ==
    aud.pc \in {"saved", "extracted"}
        => /\ Len(aud.file) = Len(aud.carrier)
           /\ \A i \in 1..Len(aud.carrier) :
                 /\ aud.file[i] \div 2 = aud.carrier[i] \div 2
                 /\ i > Len(aud.bit_stream) => aud.file[i] = aud.carrier[i]

\* ------------------------------------------------------------------------
\* Properties of the video LSB codec (checked under SpecVideo)
\* ------------------------------------------------------------------------
VideoFrameBits(m) == 64 + 8 * (14 + Len(m.val))

\* C17: for every non-empty list of frames and every message whose frame of
\* 64 + 8 * (14 + len) bits is at most the total element count,
\* _video_lsb_embed succeeds and _video_lsb_extract applied to the frames it
\* returned gives back exactly the message, also when the bits span several
\* frames.
C17_VideoRoundTrip ==
    (vid.pc \in {"error", "embedded", "extracted"}
        /\ vid.frames # <<>>
        /\ VideoFrameBits(vid.message) <= total_size(vid.frames))
    => /\ vid.pc # "error"
       /\ vid.pc = "extracted" => vid.out = vid.message

C17_Witness ==
    /\ vid.pc = "extracted"
    /\ Len(vid.frames) = 4
    /\ Len(vid.frames[1]) = 48
    /\ vid.message = bytes(<<65>>)
    /\ vid.out = vid.message

\* ------------------------------------------------------------------------
\* Properties of the payload frame, over the three LSB embedders
\* (checked under SpecCodecs)
\* ------------------------------------------------------------------------
\* the length prefix as it stands in what each embedder produced
ImagePrefix == int2([k \in 1..32 |-> lsb_at(lsb.saved, k - 1)])
AudioPrefix == int2([k \in 1..32 |-> aud.stego_int16[k] % 2])
VideoPrefix == int2([k \in 1..64 |-> pixel_lsb(vid.out_frames, k)])

C18_MotionVectorRoundTrip ==
    /\ vid.pc # "mv_extract_error"
    /\ vid.pc = "mv_extracted" => vid.out = vid.message

\* ------------------------------------------------------------------------
\* Properties of the phase codec (checked under SpecPhase)
\* ------------------------------------------------------------------------
\* C19 (as claimed): for every frame bit i and every carrier block i, a
\* block whose bin has zero magnitude included, the bit _phase_extract reads
\* from block i equals the bit _phase_embed encoded there.
C19_PhaseBlockRoundTrip ==
    aud.pc \in {"phase_embedded", "phase_extracted"}
    => \A i \in 1..Len(aud.bit_stream) :
           phase_bit(aud.file.blocks[i]) = aud.bit_stream[i]

\* ------------------------------------------------------------------------
\* Properties of the embed route (checked under SpecRoute)
\* ------------------------------------------------------------------------
Scenario(r) ==
    /\ r.message = "HELLO"
    /\ r.password = <<"p", "w">>
    /\ r.encryption_algos = <<"AES">>
    /\ r.hash_function = "sha256"
    /\ r.stenographic_technique = "LSB"
    /\ r.file.content_type = "image/png"
    /\ r.file.content = Image100

\* C2 (as claimed): the embed request of the scenario (message "HELLO",
\* password "pw", chain ["AES"], hash "sha256", a 100 x 100 RGBA image,
\* technique LSB) is answered with success and a stego image is produced.
C2_ScenarioEmbedSucceeds ==
    (req.pc = "done" /\ Scenario(req.request))
    => /\ req.response.status = 200
       /\ req.response.output_path \in DOMAIN fs

\* the identifier equals, ignoring case, a name of the enumeration
SupportedIgnoringCase(algo) ==
    \E s \in SUPPORTED_ENCRYPTION_ALGORITHMS : lower(strip(algo)) = lower(s)

\* C22 (as claimed): the pre-flight check of embed_message lets a chain
\* pass exactly when each identifier equals, ignoring case, a name of the
\* supported enumeration ("ChaCha20", "Blowfish", "Salsa20" in any casing
\* included).
C22_CaseInsensitiveIdentifiers ==
    /\ req.pc = "encrypt"
         => \A i \in 1..Len(req.request.encryption_algos) :
                SupportedIgnoringCase(req.request.encryption_algos[i])
    /\ (req.pc = "except"
          /\ req.exc = "HTTPException 400: Unsupported encryption algorithm(s)")
         => \E i \in 1..Len(req.request.encryption_algos) :
                ~SupportedIgnoringCase(req.request.encryption_algos[i])

\* the request has returned the error of a failed validation
ValidationFailed ==
    /\ req.pc = "done"
    /\ req.response.status = 500
    /\ req.response.detail
         = "HTTPException 400: Unsupported encryption algorithm(s)"

\* C23 (as claimed): once an embed request that failed validation has
\* returned its error, its temporary carrier file no longer exists and no
\* output stego file has been created.
C23_ValidationLeavesNoFiles ==
    ValidationFailed
        => /\ req.request.temp_file_path \notin DOMAIN fs
           /\ \A path \in DOMAIN fs : path[2] # "output"

\* ------------------------------------------------------------------------
\* Properties of two concurrent requests
\* ------------------------------------------------------------------------
\* the next step of a handler that runs alone and draws what h drew
alone_step(g, disk, h) ==
    IF g.pc = "saved" /\ g.kind = "embed"
    THEN [h |-> conc_embed_encrypt(g, h.second_uuid, h.rnd), fs |-> disk]
    ELSE IF g.pc = "hide" THEN conc_embed_hide(g, disk)
    ELSE IF g.pc = "remove" /\ g.kind = "embed" THEN conc_embed_remove(g, disk)
    ELSE IF g.pc = "saved" THEN [h |-> conc_extract_read(g, disk), fs |-> disk]
    ELSE IF g.pc = "remove" THEN conc_extract_remove(g, disk)
    ELSE IF g.pc = "decrypt" THEN [h |-> conc_extract_decrypt(g), fs |-> disk]
    ELSE [h |-> conc_except(g), fs |-> disk]

RECURSIVE alone_run(_, _)
alone_run(r, h) ==
    IF r.h.pc = "done" THEN r ELSE alone_run(alone_step(r.h, r.fs, h), h)

\* the request of handler h served with no other request in the system
alone(h) ==
    alone_run(conc_receive(h.kind, h.file, h.encryption_algos, h.hash_function,
                           h.stenographic_technique, h.first_uuid, <<>>), h)

BothReceived == \A i \in ConcIds : reqs[i].pc # "idle"

\* C24: in every interleaving of two concurrent embed and/or extract
\* requests, also with the same upload name and the same parameters, the
\* temporary path and the output path of one request are never written,
\* read or deleted by the other, and each request that has returned has the
\* response, and leaves the files, it has when it is served alone.
C24_NoSharedMutableState ==
    /\ BothReceived => reqs[1].touched \cap reqs[2].touched = {}
    /\ \A i \in ConcIds :
          reqs[i].pc = "done"
              => LET a == alone(reqs[i])
                 IN  /\ reqs[i].response = a.h.response
                     /\ reqs[i].touched = a.h.touched
                     /\ \A path \in reqs[i].touched :
                           /\ path \in DOMAIN fs <=> path \in DOMAIN a.fs
                           /\ path \in DOMAIN fs => fs[path] = a.fs[path]
C24_Witness ==
    /\ \A i \in ConcIds :
          /\ reqs[i].pc = "done" /\ reqs[i].kind = "embed"
          /\ reqs[i].response.status = 200
          /\ reqs[i].encryption_algos = <<"AES">>
          /\ reqs[i].file.filename = "cover.wav"
    /\ reqs[1].file.content # reqs[2].file.content
    /\ Cardinality(DOMAIN fs) = 2

\* ------------------------------------------------------------------------
\* Properties of the XOR adapter
\* ------------------------------------------------------------------------
\* C25: for every data and every non-empty key, _encrypt_xor returns
\* exactly len(data) bytes whose byte i is data[i] XOR key[i mod len(key)]
\* (the key is cycled, whether it is longer or shorter than the data), and
\* _decrypt_xor with the same key on that output returns data.
C25_XorCyclesKey ==
    /\ xr.pc # "idle"
         => /\ Len(xr.encrypted_data) = Len(xr.data)
            /\ \A i \in 1..Len(xr.data) :
                  xr.encrypted_data[i]
                      = bit_xor(xr.data[i], xr.key[((i - 1) % Len(xr.key)) + 1])
    /\ xr.pc = "decrypted" => xr.decrypted_data = xr.data
C25_Witness ==
    /\ xr.pc = "decrypted"
    /\ xr.data = <<90, 255, 0>> /\ xr.key = <<255, 90>>
    /\ xr.encrypted_data = <<165, 165, 255>>

\* ------------------------------------------------------------------------
\* Properties of the service layer
\* ------------------------------------------------------------------------
\* C28 (as claimed): for non-empty data that fits the carrier, extract_data
\* of the service applied to the carrier produced by its embed_data returns
\* exactly data (the bits stored after the 32-bit length prefix).
C28_ServiceRoundTrip ==
    (svc.pc \in {"extracted", "extract_error"} /\ svc.data # <<>>)
        => /\ svc.pc = "extracted"
           /\ svc.extracted_data = svc.data

\* ------------------------------------------------------------------------
\* Properties of the key derivation
\* ------------------------------------------------------------------------
\* C30 (as claimed): the byte string hashed by _kdf is different for every
\* two different (password, layer_index) pairs, so two different pairs
\* never derive the same layer key from the same hash and size.
C30_KdfInputSeparation ==
    (kd.pc = "derived"
       /\ <<kd.password1, kd.index1>> # <<kd.password2, kd.index2>>)
        => /\ kd.key1.key.data # kd.key2.key.data
           /\ kd.key1 # kd.key2

\* ------------------------------------------------------------------------
\* Specifications
\* ------------------------------------------------------------------------
IdleFs == <<>>
IdleReq == [pc |-> "idle"]

\* the layered cipher engine: encrypt_data, then decrypt_data on its result
Init ==
    /\ enc = IdleEnc /\ dec = IdleDec /\ lsb = IdleLsb
    /\ fs = IdleFs /\ req = IdleReq
    /\ aud = IdleAud /\ vid = IdleVid
    /\ reqs = IdleReqs /\ uuids = {}
    /\ xr = IdleXor /\ svc = IdleSvc /\ kd = IdleKdf

Next ==
    \/ EncryptCall
    \/ EncryptLayer
    \/ EncryptReturn
    \/ DecryptCall
    \/ DecryptLayer
    \/ DecryptReturn

Spec == Init /\ [][Next]_vars

\* the image codec: lsb_embed_image, then lsb_extract_image on its output
NextImage ==
    \/ EmbedCall
    \/ EmbedPixel
    \/ EmbedFinish
    \/ ExtractCall
    \/ ExtractPlain

SpecImage == Init /\ [][NextImage]_vars

\* the audio LSB codec: hide_message_in_audio, then
\* extract_message_from_audio on the file it saved
NextAudio ==
    \/ AudioEmbed
    \/ AudioSave
    \/ AudioExtract
    \/ AudioExtractPlain

SpecAudio == Init /\ [][NextAudio]_vars

\* the video LSB codec: _video_lsb_embed, then _video_lsb_extract on the
\* frames it returned
NextVideo ==
    \/ VideoEmbed
    \/ VideoExtract
    \/ VideoExtractPlain

SpecVideo == Init /\ [][NextVideo]_vars

\* the three LSB codecs, one call sequence at a time
NextCodecs ==
    \/ aud.pc = "idle" /\ vid.pc = "idle" /\ NextImage
    \/ lsb.pc = "idle" /\ vid.pc = "idle" /\ NextAudio
    \/ lsb.pc = "idle" /\ aud.pc = "idle" /\ NextVideo

SpecCodecs == Init /\ [][NextCodecs]_vars

\* the motion-vector codec: _video_mv_embed, then _video_mv_extract on the
\* frames it returned
NextMotion ==
    \/ MvEmbed
    \/ MvExtract

SpecMotion == Init /\ [][NextMotion]_vars

\* the phase codec: _phase_embed, then _phase_extract on what it returned
NextPhase ==
    \/ PhaseEmbed
    \/ PhaseExtract

SpecPhase == Init /\ [][NextPhase]_vars

\* the layered cipher engine, decrypt_data being given the codebook of
\* encrypt_data with its layers list reversed
NextSwap ==
    \/ EncryptCall
    \/ EncryptLayer
    \/ EncryptReturn
    \/ DecryptCallSwapped
    \/ DecryptLayer
    \/ DecryptReturn

SpecSwap == Init /\ [][NextSwap]_vars

\* two route handlers serving one request each, their steps interleaved
NextConc ==
    \/ \E i \in ConcIds : ConcReceive(i)
    \/ \E i \in ConcIds : ConcEmbedEncrypt(i)
    \/ \E i \in ConcIds : ConcEmbedHide(i)
    \/ \E i \in ConcIds : ConcEmbedRemove(i)
    \/ \E i \in ConcIds : ConcExtractRead(i)
    \/ \E i \in ConcIds : ConcExtractRemove(i)
    \/ \E i \in ConcIds : ConcExtractDecrypt(i)
    \/ \E i \in ConcIds : ConcExcept(i)

SpecConc == Init /\ [][NextConc]_vars

\* the XOR adapter: _encrypt_xor, then _decrypt_xor
NextXor ==
    \/ EncryptXor
    \/ DecryptXor

SpecXor == Init /\ [][NextXor]_vars

\* the image service: embed_data, then extract_data on its output
NextService ==
    \/ SvcEmbed
    \/ SvcExtract

SpecService == Init /\ [][NextService]_vars

\* _kdf on two pairs
NextKdf == KdfPair

SpecKdf == Init /\ [][NextKdf]_vars

\* the embed route serving one request
NextRoute ==
    \/ EmbedReceive
    \/ EmbedPreflight
    \/ EmbedEncrypt
    \/ EmbedHide
    \/ EmbedExcept

SpecRoute == Init /\ [][NextRoute]_vars

====
